---- MODULE Spec2Model ----
(***************************************************************************)
(* Model of the subprocess protocol engine of claude-agent-sdk-go:         *)
(* spawnAndStream (reader goroutine, shutdown goroutine, write/closeStdin),*)
(* handleControlRequest, routeControlResponse and Stream.sendControlRequest*)
(* with the child process, the context and the consumer as environment.    *)
(***************************************************************************)
EXTENDS Integers, Sequences, FiniteSets, TLC

\* ---------------------------------------------------------------- bounds
\* lines the child may emit on stdout in the dispatch scenario
MaxLines == 2
\* lines the child may emit on stdout in the control scenario
MaxCtlLines == 2
\* lines the child may emit on stdout in the request scenario
MaxReqLines == 3
\* lines the child may emit on stdout in the Run scenario
MaxRunLines == 2
\* lines the child may emit on stdout in the shutdown scenario
MaxSdLines == 2
\* lines the child may emit on stdout in the stdin scenario
MaxIOLines == 2
\* lines the child may emit on stdout in the handshake scenario
MaxHsLines == 2
\* concurrent callers of SetModel / SetPermissionMode / SetMaxThinkingTokens
NumCallers == 2
\* callers writing to stdin in the shutdown scenario
NumWriters == 1
\* entries of the parent environment in the environment scenario
MaxEnviron == 2
\* calls of Stream.Interrupt()
MaxInterrupts == 2
\* capacity of the events channel as modelled (the code allocates 32 slots)
EventsCap == 1

\* ------------------------------------------------------------- constants
\* holders of stdinMu
Free == 0
ReaderId == 0 - 1
HandshakeId == 0 - 3
\* "no request_id" (the Go zero value "")
NoId == 0
\* the request_id newUUID gave the initialize message
InitId == 1

Callers == 1 .. NumCallers

VARIABLES
  opts,           \* Options: PermissionHandler, by the PermissionResult it returns (Nil: none
                  \* set); Env, Thinking, MaxThinkingTokens
  hookReg,        \* hookRegistry: callback id -> what the registered HookFunc returns
  spawn,          \* spawnAndStream: "exec" (cmd.Env not yet set), "initialize" | "user"
                  \* (the write it is about to make), "started" (it returned the Stream),
                  \* "failed" (it returned an error)
  environ,        \* os.Environ(): the parent's environment, a sequence of entries
  cmdEnv,         \* cmd.Env: the environment given to the subprocess
  child,          \* "running" | "exited": the subprocess
  exitErr,        \* TRUE when cmd.Wait() returns a non-nil error (non-zero status or signal)
  stderrBuf,      \* what the child wrote to its stderr (stderrBuf.String())
  emitted,        \* every line the child wrote to stdout, in order
  rd,             \* how many of them scanner.Scan() has returned
  stdinLog,       \* every line written to the child's stdin, in order
  stdinFull,      \* the stdin pipe has no room for the next line (the child is not reading)
  stdinClosed,    \* stdin.Close() was called
  stdinMu,        \* holder of stdinMu (Free when unlocked)
  ctxDone,        \* ctx.Done() is closed
  cancelledWaiting, \* the callers still waiting, no response routed, when ctx was cancelled
  interruptCh,    \* interruptCh is closed
  interruptCalls, \* calls of Stream.Interrupt() so far
  procDone,       \* procDone is closed
  events,         \* buffer of stream.events
  eventsClosed,   \* number of close(stream.events) executed
  sentAfterClose, \* a send on stream.events happened after its close
  received,       \* events the consumer took from Stream.Events()
  rdr,            \* position of the reader goroutine ("panic": it panicked, no recover, the
                  \* program is gone; "incall": inside a host function that never returns)
  cur,            \* the line the reader is handling
  out,            \* control responses handleControlRequest has still to write
  gotResult,      \* the reader's gotResult
  exitPath,       \* how the reader left its loop
  attempts,       \* every write(control_response) the reader made: [idx, rid, sub, ok]
  sd,             \* position of the shutdown goroutine
  sdLog,          \* what the shutdown goroutine did, in order
  timerStarts,    \* number of time.After(5s) timers started
  cpc,            \* position of each caller inside sendControlRequest
  reqId,          \* the request id newUUID gave each caller
  respCh,         \* each caller's respCh (capacity 1): <<>> or <<controlResponse>>
  ret,            \* what sendControlRequest returned to each caller
  pending         \* Stream.pending: request id -> the caller owning the respCh

vars == << opts, hookReg, spawn, environ, cmdEnv, child, exitErr, stderrBuf, emitted, rd, stdinLog, stdinFull, stdinClosed, stdinMu,
           ctxDone, cancelledWaiting, interruptCh, interruptCalls, procDone, events, eventsClosed,
           sentAfterClose, received, rdr, cur, out, gotResult, exitPath, attempts,
           sd, sdLog, timerStarts, cpc, reqId, respCh, ret, pending >>

cfgVars    == << opts, hookReg, spawn, environ, cmdEnv >>
ctxVars    == << ctxDone, cancelledWaiting >>
childVars  == << child, exitErr, stderrBuf, emitted >>
stdinVars  == << stdinLog, stdinClosed, stdinMu >>
chanVars   == << events, eventsClosed, sentAfterClose >>
readerVars == << rd, rdr, cur, out, gotResult, exitPath, attempts >>
sdVars     == << sd, sdLog, timerStarts >>
callerVars == << cpc, reqId, respCh, ret, pending >>

\* ------------------------------------------------------------ wire lines
\* A stdout line: its "type" discriminant, its top-level request_id, its
\* subtype, and wf: whether the kind-specific json.Unmarshal succeeds.
\* cb is request.callback_id and tuid request.tool_use_id of a control_request;
\* irid is response.request_id and err response.error of a control_response.
Line(t, r, s, w) ==
  [type |-> t, rid |-> r, sub |-> s, wf |-> w, isError |-> FALSE, cb |-> "", tuid |-> "",
   irid |-> NoId, err |-> ""]
\* A result line whose payload has is_error set.
ErrorResultLine(s) == [Line("result", NoId, s, TRUE) EXCEPT !.isError = TRUE]
NoLine == Line("", NoId, "", FALSE)

TypeAssistant == "assistant"
TypeResult == "result"
TypeSystem == "system"

\* Lines that fail the reader's first json.Unmarshal (or are empty) and the
\* line longer than the scanner's buffer.  "#nonstring" is a line of valid
\* JSON that json.Unmarshal cannot store in typeCheck: its "type" is not a
\* string ({"type":5}) or it is not an object ([1,2]).
IsSkipped(l) == l.type \in {"#empty", "#nonjson", "#nonstring"}
IsTooLong(l) == l.type = "#toolong"
IsControl(l) == l.type \in {"control_request", "control_response"}
IsDomain(l) == ~IsSkipped(l) /\ ~IsTooLong(l) /\ ~IsControl(l)

\* A hook_callback control_request naming callback cb
HookLine(r, c) == [Line("control_request", r, "hook_callback", TRUE) EXCEPT !.cb = c]
\* A can_use_tool control_request for tool use t
ToolLine(r, t) == [Line("control_request", r, "can_use_tool", TRUE) EXCEPT !.tuid = t]

\* A Go nil (map, pointer or func)
Nil == "<nil>"

\* The "response" object inside a control_response: kind tells whose it is,
\* keys are the keys present in the JSON object, the other fields their
\* values (zero values for absent keys).
NoPayload ==
  [kind |-> "none", keys |-> {}, allowed |-> FALSE, toolUseID |-> "",
   updatedInput |-> Nil, updatedPermissions |-> << >>, message |-> "",
   interrupt |-> FALSE, output |-> Nil]

\* A line written to stdin: for a control_response, sub is response.subtype,
\* err response.error, hasResp/resp the response.response object; by is the
\* writer and calls the host functions invoked to build it.
Msg(t, r, s, w) ==
  [type |-> t, rid |-> r, sub |-> s, by |-> w,
   hasResp |-> FALSE, resp |-> NoPayload, err |-> "", calls |-> << >>]

\* An event on stream.events: src is the index of the stdout line it was
\* parsed from, 0 for an event the reader synthesized.
\* msg is System.Message, isError is Result.IsError (zero values when the
\* typed field is absent).
Event(t, s, ty, i) ==
  [type |-> t, sub |-> s, typed |-> ty, src |-> i, msg |-> "", isError |-> FALSE]


\* ------------------------------------------------------- pure functions
KnownTypes == {TypeAssistant, "stream_event", TypeResult, TypeSystem}

\* parseLine: Type and Raw are always set; the typed field is set only for
\* a known type whose typed json.Unmarshal succeeds.
parseLine(line, idx) ==
  LET typed == line.type \in KnownTypes /\ line.wf
  IN  [Event(line.type, IF typed THEN line.sub ELSE "", typed, idx)
         EXCEPT !.isError = typed /\ line.type = TypeResult /\ line.isError]

\* errorEvent: the synthetic system/error event
errorEvent(msg) == [Event(TypeSystem, "error", TRUE, 0) EXCEPT !.msg = msg]

\* strings.TrimSpace on the stderr texts the child may leave
StderrTexts == {"", "bad flag\n"}
TrimSpace(str) == IF str = "bad flag\n" THEN "bad flag" ELSE str

waitErrMsgStderr(stderr) == TrimSpace(stderr)

\* The message of the error event after cmd.Wait() failed: the trimmed
\* stderr, or err.Error() when that is empty.
waitErrMsg(stderr) ==
  IF TrimSpace(stderr) # "" THEN TrimSpace(stderr) ELSE "exit status 1"

\* PermissionResult, and what a HookFunc returns
\* ends tells how the call of the host function ends: it "returns" these
\* values, it "panics", or it "never" returns.
PermissionResult(b, ui, up, m, i) ==
  [Behavior |-> b, UpdatedInput |-> ui, UpdatedPermissions |-> up,
   Message |-> m, Interrupt |-> i, ends |-> "returns"]
\* opts.PermissionHandler == nil
NoHandler == PermissionResult(Nil, Nil, << >>, "", FALSE)
HookReturn(o, e) == [output |-> o, err |-> e, ends |-> "returns"]

\* How the host function handleControlRequest calls for this line ends;
\* "none" when it calls none.
hostCall(line, o, reg) ==
  IF ~line.wf THEN "none"
  ELSE IF line.sub = "can_use_tool"
    THEN (IF o.PermissionHandler # NoHandler THEN o.PermissionHandler.ends ELSE "none")
  ELSE IF line.sub = "hook_callback" /\ line.cb \in DOMAIN reg
    THEN reg[line.cb].ends
  ELSE "none"

canUseToolRespAlwaysMessage(result, tuid) ==
  [kind |-> "permission",
   keys |-> {"allowed", "toolUseID", "message"}
              \cup (IF result.UpdatedInput # Nil THEN {"updatedInput"} ELSE {})
              \cup (IF Len(result.UpdatedPermissions) > 0 THEN {"updatedPermissions"} ELSE {})
              \cup (IF result.Interrupt THEN {"interrupt"} ELSE {}),
   allowed |-> result.Behavior # "deny",
   toolUseID |-> tuid,
   updatedInput |-> result.UpdatedInput,
   updatedPermissions |-> result.UpdatedPermissions,
   message |-> result.Message,
   interrupt |-> result.Interrupt,
   output |-> Nil]

canUseToolRespAllowOnly(result, tuid) ==
  [kind |-> "permission",
   keys |-> {"allowed", "toolUseID"}
              \cup (IF result.UpdatedInput # Nil THEN {"updatedInput"} ELSE {})
              \cup (IF Len(result.UpdatedPermissions) > 0 THEN {"updatedPermissions"} ELSE {})
              \cup (IF result.Message # "" THEN {"message"} ELSE {})
              \cup (IF result.Interrupt THEN {"interrupt"} ELSE {}),
   allowed |-> result.Behavior = "allow",
   toolUseID |-> tuid,
   updatedInput |-> result.UpdatedInput,
   updatedPermissions |-> result.UpdatedPermissions,
   message |-> result.Message,
   interrupt |-> result.Interrupt,
   output |-> Nil]

\* The resp map of the can_use_tool case
canUseToolResp(result, tuid) ==
  [kind |-> "permission",
   keys |-> {"allowed", "toolUseID"}
              \cup (IF result.UpdatedInput # Nil THEN {"updatedInput"} ELSE {})
              \cup (IF Len(result.UpdatedPermissions) > 0 THEN {"updatedPermissions"} ELSE {})
              \cup (IF result.Message # "" THEN {"message"} ELSE {})
              \cup (IF result.Interrupt THEN {"interrupt"} ELSE {}),
   allowed |-> result.Behavior # "deny",
   toolUseID |-> tuid,
   updatedInput |-> result.UpdatedInput,
   updatedPermissions |-> result.UpdatedPermissions,
   message |-> result.Message,
   interrupt |-> result.Interrupt,
   output |-> Nil]

hookRespEmpty(output) == [NoPayload EXCEPT !.kind = "hook", !.keys = {"output"}]

hookResp(output) == [NoPayload EXCEPT !.kind = "hook", !.keys = {"output"}, !.output = output]

\* The control_response messages
successResponse(rid, hasResp, resp, calls) ==
  [Msg("control_response", rid, "success", ReaderId)
     EXCEPT !.hasResp = hasResp, !.resp = resp, !.calls = calls]
errorResponseAsSuccess(rid, err, calls) ==
  [Msg("control_response", rid, "success", ReaderId) EXCEPT !.err = err, !.calls = calls]

errorResponse(rid, err, calls) ==
  [Msg("control_response", rid, "error", ReaderId) EXCEPT !.err = err, !.calls = calls]

\* handleControlRequest whose hook error path lacks its return: the success
\* response is written after the error response.
handleControlRequestNoReturn(line, o, reg) ==
  IF ~line.wf
    THEN << >>
    ELSE IF line.sub = "hook_callback" /\ line.cb \in DOMAIN reg /\ reg[line.cb].err # ""
      THEN << errorResponse(line.rid, reg[line.cb].err, << line.cb >>),
              successResponse(line.rid, FALSE, NoPayload, << >>) >>
      ELSE << successResponse(line.rid, FALSE, NoPayload, << >>) >>

\* The control responses handleControlRequest writes for one control_request
\* line, in order, with options o and hook registry reg.
handleControlRequest(line, o, reg) ==
  IF ~line.wf \/ hostCall(line, o, reg) \in {"panics", "never"}
    THEN << >>
  ELSE IF line.sub = "can_use_tool"
    THEN IF o.PermissionHandler # NoHandler
           THEN << successResponse(line.rid, TRUE,
                     canUseToolResp(o.PermissionHandler, line.tuid),
                     << "PermissionHandler" >>) >>
           ELSE << successResponse(line.rid, TRUE,
                     canUseToolResp(PermissionResult("allow", Nil, << >>, "", FALSE), line.tuid),
                     << >>) >>
  ELSE IF line.sub = "hook_callback"
    THEN IF line.cb \in DOMAIN reg
           THEN IF reg[line.cb].err # ""
                  THEN << errorResponse(line.rid, reg[line.cb].err, << line.cb >>) >>
                  ELSE IF reg[line.cb].output # Nil
                    THEN << successResponse(line.rid, TRUE, hookResp(reg[line.cb].output),
                                            << line.cb >>) >>
                    ELSE << successResponse(line.rid, FALSE, NoPayload, << line.cb >>) >>
           ELSE << successResponse(line.rid, FALSE, NoPayload, << >>) >>
  ELSE << successResponse(line.rid, FALSE, NoPayload, << >>) >>

\* controlResponse, with the request id of the line it was built from
controlResponse(line) ==
  [Success |-> line.sub # "error", Error |-> line.err, rid |-> line.rid]

\* routeControlResponse: the pending table and the reply channels after the
\* reader routed one control_response line.
routeHit(line) == line.wf /\ line.rid # NoId /\ line.rid \in DOMAIN pending

routePendingKeep(line) == pending

routePendingStale(line) ==
  IF routeHit(line) /\ ctxDone
    THEN pending
    ELSE [i \in DOMAIN pending \ {line.rid} |-> pending[i]]

routePendingClear(line) ==
  IF routeHit(line)
    THEN [i \in DOMAIN pending \ {line.rid} |-> pending[i]]
    ELSE << >>

\* routeControlResponse on s.pending: the entry of the response's request_id
\* is deleted when there is one; otherwise the table is left as it is.
routePending(line) ==
  IF routeHit(line)
    THEN [i \in DOMAIN pending \ {line.rid} |-> pending[i]]
    ELSE pending

routeRespChAny(line) ==
  IF routeHit(line) /\ Len(respCh[pending[CHOOSE i \in DOMAIN pending : TRUE]]) < 1
    THEN [respCh EXCEPT ![pending[CHOOSE i \in DOMAIN pending : TRUE]] =
            Append(@, controlResponse(line))]
    ELSE respCh

routeRespCh(line) ==
  IF routeHit(line) /\ Len(respCh[pending[line.rid]]) < 1
    THEN [respCh EXCEPT ![pending[line.rid]] = Append(@, controlResponse(line))]
    ELSE respCh

\* newUUID: a fresh random identifier; the one caller c draws is named
\* InitId + c (two draws of 122 random bits are taken to differ).
newUUID(c) == InitId + c

\* newUUID discards the error of rand.Read: when no random bytes are read the
\* sixteen bytes stay zero and every identifier is the same string.
ZeroUUID == InitId + NumCallers + 1

\* The identifiers newUUID can return to caller c.
newUUIDAny(c) == {newUUID(c), ZeroUUID}

\* Run: what the loop over stream.Events() returns after the events evs, the
\* channel being closed and drained or not.  kind is "ok" (the Result of the
\* event parsed from line src, nil error), "error" (nil Result, the error
\* text), "panic" (r.IsError read through the nil event.Result) or "running"
\* (blocked in the range, nothing returned yet).
RunReturn(k, i, t) == [kind |-> k, src |-> i, text |-> t]

RECURSIVE RunIgnoreIsError(_, _)
RunIgnoreIsError(evs, closed) ==
  IF evs = << >>
    THEN IF closed
           THEN RunReturn("error", 0, "claude: agent finished without a result message")
           ELSE RunReturn("running", 0, "")
    ELSE LET event == Head(evs) IN
         IF event.type = TypeResult
           THEN IF ~event.typed THEN RunReturn("panic", 0, "nil pointer dereference")
                ELSE RunReturn("ok", event.src, "")
         ELSE IF event.type = TypeSystem /\ event.typed /\ event.sub = "error"
           THEN RunReturn("error", 0, event.msg)
         ELSE RunIgnoreIsError(Tail(evs), closed)

RECURSIVE Run(_, _)
Run(evs, closed) ==
  IF evs = << >>
    THEN IF closed
           THEN RunReturn("error", 0, "claude: agent finished without a result message")
           ELSE RunReturn("running", 0, "")
    ELSE LET event == Head(evs) IN
         IF event.type = TypeResult
           THEN IF ~event.typed THEN RunReturn("panic", 0, "nil pointer dereference")
                ELSE IF event.isError THEN RunReturn("error", 0, "claude: agent error")
                ELSE RunReturn("ok", event.src, "")
         ELSE IF event.type = TypeSystem /\ event.typed /\ event.sub = "error"
           THEN RunReturn("error", 0, event.msg)
         ELSE Run(Tail(evs), closed)

\* ThinkingMode values
ThinkingAdaptive == "adaptive"
ThinkingDisabled == "disabled"
ThinkingEnabled == "enabled"

\* const SDKVersion
SDKVersion == "0.2.2"

\* Options.Env == nil
NoEnv == [k \in {} |-> ""]

\* An environment entry, the string key + "=" + val.  key is what precedes
\* the first '='; key = "" stands for an entry with no '=' or a leading '='
\* (strings.IndexByte(e, '=') <= 0).
EnvEntry(k, v) == [key |-> k, val |-> v]

\* the prefixes buildEnv drops from the parent's environment, by their key
StrippedKeys == { "CLAUDECODE", "CLAUDE_CODE_ENTRYPOINT", "MAX_THINKING_TOKENS" }

\* The orders in which "for k, v := range opts.Env" may visit the map: Go
\* leaves the iteration order of a map unspecified.
EnvOrders(m) ==
  { ord \in [1 .. Cardinality(DOMAIN m) -> DOMAIN m] :
      \A i, j \in DOMAIN ord : i # j => ord[i] # ord[j] }

\* the first loop of buildEnv: is the parent's entry e copied to out
keptParent(e, m) ==
  /\ e.key \notin StrippedKeys
  /\ ~(e.key # "" /\ e.key \in DOMAIN m)

\* the MAX_THINKING_TOKENS entry buildEnv appends, if any
thinkingEnv(o) ==
  IF o.Thinking = ThinkingDisabled
    THEN << EnvEntry("MAX_THINKING_TOKENS", "0") >>
  ELSE IF o.MaxThinkingTokens > 0
    THEN << EnvEntry("MAX_THINKING_TOKENS", ToString(o.MaxThinkingTokens)) >>
  ELSE << >>

\* buildEnv(opts) with parent = os.Environ() and ord the order in which the
\* range over opts.Env runs.
buildEnv(o, parent, ord) ==
  SelectSeq(parent, LAMBDA e : keptParent(e, o.Env))
    \o << EnvEntry("CLAUDE_CODE_ENTRYPOINT", "sdk-go") >>
    \o thinkingEnv(o)
    \o [i \in 1 .. Len(ord) |-> EnvEntry(ord[i], o.Env[ord[i]])]

\* ------------------------------------------------------------------ Init
\* The state in which spawnAndStream returns the Stream: the process is
\* started, initialize and the user message are written, both goroutines
\* are at their first statement.
\* The two lines spawnAndStream writes before it starts the goroutines.
handshakeMsgUserFirst(stage) ==
  IF stage = "initialize"
    THEN Msg("user", NoId, "", HandshakeId)
    ELSE Msg("control_request", InitId, "initialize", HandshakeId)

handshakeMsg(stage) ==
  IF stage = "initialize"
    THEN Msg("control_request", InitId, "initialize", HandshakeId)
    ELSE Msg("user", NoId, "", HandshakeId)

\* The state with spawnAndStream at stage sp and log already on stdin.
InitFrom(o, parent, built, reg, sp, log) ==
  /\ opts = o
  /\ hookReg = reg
  /\ spawn = sp
  /\ environ = parent
  /\ cmdEnv = built
  /\ child = "running"
  /\ exitErr = FALSE
  /\ stderrBuf = ""
  /\ emitted = << >>
  /\ rd = 0
  /\ stdinLog = log
  /\ stdinFull = FALSE
  /\ stdinClosed = FALSE
  /\ stdinMu = Free
  /\ ctxDone = FALSE
  /\ cancelledWaiting = {}
  /\ interruptCh = FALSE
  /\ interruptCalls = 0
  /\ procDone = FALSE
  /\ events = << >>
  /\ eventsClosed = 0
  /\ sentAfterClose = FALSE
  /\ received = << >>
  /\ rdr = "scan"
  /\ cur = NoLine
  /\ out = << >>
  /\ gotResult = FALSE
  /\ exitPath = ""
  /\ attempts = << >>
  /\ sd = "select1"
  /\ sdLog = << >>
  /\ timerStarts = 0
  /\ cpc = [c \in Callers |-> "idle"]
  /\ reqId = [c \in Callers |-> NoId]
  /\ respCh = [c \in Callers |-> << >>]
  /\ ret = [c \in Callers |-> [val |-> "", rid |-> NoId, err |-> ""]]
  /\ pending = [i \in {} |-> 0]

\* The state once cmd.Env is set and the subprocess is started, under an
\* empty parent environment.
InitAt(o, reg, sp, log) ==
  \E ord \in EnvOrders(o.Env) :
    InitFrom(o, << >>, buildEnv(o, << >>, ord), reg, sp, log)

\* The state when spawnAndStream returns the Stream: both handshake lines are
\* on stdin and the two goroutines are started.
InitWith(o, reg) ==
  InitAt(o, reg, "started", << handshakeMsg("initialize"), handshakeMsg("user") >>)

\* The session of the dispatch, control and shutdown scenarios: no
\* PermissionHandler, one registered hook, whose callback fails.
DefaultOpts ==
  [PermissionHandler |-> NoHandler, Env |-> NoEnv, Thinking |-> ThinkingAdaptive,
   MaxThinkingTokens |-> 0]
DefaultHookReg == [c \in {"cb1"} |-> HookReturn(Nil, "hook failed")]

Init == InitWith(DefaultOpts, DefaultHookReg)

\* ----------------------------------------------------------- environment
\* The child writes one line to stdout.
ChildEmit(l, max) ==
  /\ child = "running"
  /\ Len(emitted) < max
  /\ emitted' = Append(emitted, l)
  /\ UNCHANGED << cfgVars, child, exitErr, stderrBuf, stdinVars, stdinFull, ctxVars, interruptCh,
                  interruptCalls, procDone, chanVars, received, readerVars,
                  sdVars, callerVars >>

\* The child stops reading its stdin and the pipe buffer fills up, or the
\* child reads again and the pipe has room.
ChildStdin(full) ==
  /\ child = "running"
  /\ stdinFull # full
  /\ stdinFull' = full
  /\ UNCHANGED << cfgVars, childVars, stdinVars, ctxVars, interruptCh, interruptCalls,
                  procDone, chanVars, received, readerVars, sdVars, callerVars >>

\* The child exits on its own (also its reaction to stdin EOF or SIGTERM).
ChildExit(err, stderr) ==
  /\ child = "running"
  /\ child' = "exited"
  /\ exitErr' = err
  /\ stderrBuf' = stderr
  /\ UNCHANGED << cfgVars, emitted, stdinVars, stdinFull, ctxVars, interruptCh,
                  interruptCalls, procDone, chanVars, received, readerVars,
                  sdVars, callerVars >>

\* The caller cancels ctx.
Cancel ==
  /\ ~ctxDone
  /\ ctxDone' = TRUE
  /\ cancelledWaiting' = {c \in Callers : cpc[c] = "wait" /\ respCh[c] = << >>}
  /\ UNCHANGED << cfgVars, childVars, stdinVars, stdinFull, interruptCh, interruptCalls,
                  procDone, chanVars, received, readerVars, sdVars, callerVars >>

\* Stream.Interrupt(): interruptOnce.Do(close(interruptCh))
Interrupt(max) ==
  /\ interruptCalls < max
  /\ interruptCalls' = interruptCalls + 1
  /\ interruptCh' = TRUE
  /\ UNCHANGED << cfgVars, childVars, stdinVars, stdinFull, ctxVars, procDone, chanVars,
                  received, readerVars, sdVars, callerVars >>

\* The consumer receives one event from Stream.Events().
Receive ==
  /\ events # << >>
  /\ received' = Append(received, Head(events))
  /\ events' = Tail(events)
  /\ UNCHANGED << cfgVars, childVars, stdinVars, stdinFull, ctxVars, interruptCh,
                  interruptCalls, procDone, eventsClosed, sentAfterClose,
                  readerVars, sdVars, callerVars >>


\* ------------------------------------------------------ write, closeStdin
\* stdin.Write blocks while the pipe is full, fails once stdin is closed or
\* the child is gone.
HasSpace == ~stdinFull
WriteFailsExitOnly == child = "exited"
WriteFails == stdinClosed \/ child = "exited"
WriteReturns == WriteFails \/ HasSpace

\* ------------------------------------------------------ reader goroutine
\* The deferred close(procDone) and close(stream.events).
ReaderReturn ==
  /\ rdr' = "done"
  /\ procDone' = TRUE
  /\ eventsClosed' = eventsClosed + 1

\* The switch with the control_response case forwarding the line.
scanNextForward(line, resp) ==
  IF IsTooLong(line) THEN "scanerr"
  ELSE IF IsSkipped(line) THEN "scan"
  ELSE IF line.type = "control_request"
    THEN (IF resp = << >> THEN "scan" ELSE "respond")
  ELSE "deliver"

scanNextNonJSON(line, resp) ==
  IF IsTooLong(line) THEN "scanerr"
  ELSE IF line.type = "#empty" THEN "scan"
  ELSE IF line.type = "control_request"
    THEN (IF resp = << >> THEN "scan" ELSE "respond")
  ELSE IF line.type = "control_response" THEN "scan"
  ELSE "deliver"

\* Where the reader goes with the line scanner.Scan() returned: a line too
\* long ends the loop with scanner.Err(); an empty or non-JSON line and a
\* control line are never forwarded (continue); anything else is delivered.
scanNext(line, resp) ==
  IF IsTooLong(line) THEN "scanerr"
  ELSE IF IsSkipped(line) THEN "scan"
  ELSE IF line.type = "control_request"
    THEN (IF resp = << >> THEN "scan" ELSE "respond")
  ELSE IF line.type = "control_response" THEN "scan"
  ELSE "deliver"

\* scanner.Scan() returns a line; the switch on its type.
ReaderScan ==
  /\ rdr = "scan"
  /\ rd < Len(emitted)
  /\ LET line == emitted[rd + 1] IN
     /\ rd' = rd + 1
     /\ out' = IF line.type = "control_request"
                 THEN handleControlRequest(line, opts, hookReg) ELSE << >>
     /\ rdr' = IF line.type = "control_request" /\ hostCall(line, opts, hookReg) = "panics"
                 THEN "panic"
               ELSE IF line.type = "control_request" /\ hostCall(line, opts, hookReg) = "never"
                 THEN "incall"
               ELSE scanNext(line, out')
     /\ cur' = line
     /\ exitPath' = IF IsTooLong(line) THEN "readerr" ELSE exitPath
     /\ pending' = IF line.type = "control_response" THEN routePending(line) ELSE pending
     /\ respCh' = IF line.type = "control_response" THEN routeRespCh(line) ELSE respCh
  /\ UNCHANGED << cfgVars, childVars, stdinVars, stdinFull, ctxVars, interruptCh,
                  interruptCalls, procDone, chanVars, received, gotResult,
                  attempts, sdVars, cpc, reqId, ret >>

\* scanner.Scan() returns false at end of stdout.
ReaderEOF ==
  /\ rdr = "scan"
  /\ rd = Len(emitted)
  /\ child = "exited"
  /\ rdr' = "wait"
  /\ exitPath' = "eof"
  /\ UNCHANGED << cfgVars, childVars, stdinVars, stdinFull, ctxVars, interruptCh,
                  interruptCalls, procDone, chanVars, received, rd, cur, out,
                  gotResult, attempts, sdVars, callerVars >>

\* write(control_response) inside handleControlRequest; its error is dropped.
ReaderRespond ==
  /\ rdr = "respond"
  /\ stdinMu \in {Free, ReaderId}
  /\ IF WriteReturns
       THEN /\ stdinLog' = IF WriteFails THEN stdinLog ELSE Append(stdinLog, Head(out))
            /\ attempts' = Append(attempts, [idx |-> rd, rid |-> Head(out).rid,
                                             sub |-> Head(out).sub, ok |-> ~WriteFails])
            /\ out' = Tail(out)
            /\ rdr' = IF Tail(out) = << >> THEN "scan" ELSE "respond"
            /\ stdinMu' = Free
       ELSE /\ stdinMu = Free
            /\ stdinMu' = ReaderId
            /\ UNCHANGED << cfgVars, stdinLog, attempts, out, rdr >>
  /\ UNCHANGED << cfgVars, childVars, stdinFull, stdinClosed, ctxVars, interruptCh,
                  interruptCalls, procDone, chanVars, received, rd, cur,
                  gotResult, exitPath, sdVars, callerVars >>

\* select: case stream.events <- event
ReaderDeliver ==
  /\ rdr = "deliver"
  /\ Len(events) < EventsCap
  /\ events' = Append(events, parseLine(cur, rd))
  /\ sentAfterClose' = (sentAfterClose \/ eventsClosed > 0)
  /\ gotResult' = (gotResult \/ cur.type = TypeResult)
  /\ rdr' = IF cur.type = TypeResult THEN "closestdin" ELSE "scan"
  /\ exitPath' = IF cur.type = TypeResult THEN "result" ELSE exitPath
  /\ UNCHANGED << cfgVars, childVars, stdinVars, stdinFull, ctxVars, interruptCh,
                  interruptCalls, procDone, eventsClosed, received, rd, cur,
                  out, attempts, sdVars, callerVars >>

ReaderAbandonNoClose ==
  /\ rdr = "deliver"
  /\ ctxDone
  /\ rdr' = "done"
  /\ procDone' = TRUE
  /\ exitPath' = "cancel"
  /\ UNCHANGED << cfgVars, childVars, stdinVars, stdinFull, ctxVars, interruptCh,
                  interruptCalls, chanVars, received, rd, cur,
                  out, gotResult, attempts, sdVars, callerVars >>

\* select: case <-ctx.Done(): return
ReaderAbandon ==
  /\ rdr = "deliver"
  /\ ctxDone
  /\ ReaderReturn
  /\ exitPath' = "cancel"
  /\ UNCHANGED << cfgVars, childVars, stdinVars, stdinFull, ctxVars, interruptCh,
                  interruptCalls, events, sentAfterClose, received, rd, cur,
                  out, gotResult, attempts, sdVars, callerVars >>

ReaderCloseStdinResume ==
  /\ rdr = "closestdin"
  /\ stdinMu = Free
  /\ stdinClosed' = TRUE
  /\ rdr' = "scan"
  /\ UNCHANGED << cfgVars, childVars, stdinLog, stdinMu, stdinFull, ctxVars, interruptCh,
                  interruptCalls, procDone, chanVars, received, rd, cur, out,
                  gotResult, exitPath, attempts, sdVars, callerVars >>

\* closeStdin() after the result event, then break.
ReaderCloseStdin ==
  /\ rdr = "closestdin"
  /\ stdinMu = Free
  /\ stdinClosed' = TRUE
  /\ rdr' = "wait"
  /\ UNCHANGED << cfgVars, childVars, stdinLog, stdinMu, stdinFull, ctxVars, interruptCh,
                  interruptCalls, procDone, chanVars, received, rd, cur, out,
                  gotResult, exitPath, attempts, sdVars, callerVars >>

\* sendEvent(ctx, ch, e): the event is sent, or dropped once ctx is done.
sendEventWays == (IF Len(events) < EventsCap THEN {"send"} ELSE {})
                   \cup (IF ctxDone THEN {"drop"} ELSE {})

sendEvent(way, e) ==
  /\ events' = IF way = "send" THEN Append(events, e) ELSE events
  /\ sentAfterClose' = (sentAfterClose \/ (way = "send" /\ eventsClosed > 0))

\* scanner.Err() != nil: the read error is sent as an event.
ReaderScanErr ==
  /\ rdr = "scanerr"
  /\ \E way \in sendEventWays : sendEvent(way, errorEvent("stdout read error"))
  /\ rdr' = "wait"
  /\ UNCHANGED << cfgVars, childVars, stdinVars, stdinFull, ctxVars, interruptCh,
                  interruptCalls, procDone, eventsClosed, received, rd, cur,
                  out, gotResult, exitPath, attempts, sdVars, callerVars >>

ReaderWaitCloseFirst ==
  /\ rdr = "wait"
  /\ child = "exited"
  /\ IF exitErr /\ ~gotResult
       THEN /\ rdr' = "senderr"
            /\ eventsClosed' = eventsClosed + 1
            /\ UNCHANGED procDone
       ELSE ReaderReturn
  /\ UNCHANGED << cfgVars, childVars, stdinVars, stdinFull, ctxVars, interruptCh,
                  interruptCalls, events, sentAfterClose, received, rd, cur,
                  out, gotResult, exitPath, attempts, sdVars, callerVars >>

ReaderWaitSilent ==
  /\ rdr = "wait"
  /\ child = "exited"
  /\ ReaderReturn
  /\ UNCHANGED << cfgVars, childVars, stdinVars, stdinFull, ctxVars, interruptCh,
                  interruptCalls, events, sentAfterClose, received, rd, cur,
                  out, gotResult, exitPath, attempts, sdVars, callerVars >>

\* cmd.Wait() returns once the child has exited.
ReaderWait ==
  /\ rdr = "wait"
  /\ child = "exited"
  /\ IF exitErr /\ ~gotResult
       THEN /\ rdr' = "senderr"
            /\ UNCHANGED << cfgVars, procDone, eventsClosed >>
       ELSE ReaderReturn
  /\ UNCHANGED << cfgVars, childVars, stdinVars, stdinFull, ctxVars, interruptCh,
                  interruptCalls, events, sentAfterClose, received, rd, cur,
                  out, gotResult, exitPath, attempts, sdVars, callerVars >>

\* sendEvent(errorEvent(stderr or err)), then the goroutine returns.
ReaderSendErr ==
  /\ rdr = "senderr"
  /\ \E way \in sendEventWays : sendEvent(way, errorEvent(waitErrMsg(stderrBuf)))
  /\ ReaderReturn
  /\ UNCHANGED << cfgVars, childVars, stdinVars, stdinFull, ctxVars, interruptCh,
                  interruptCalls, received, rd, cur, out, gotResult, exitPath,
                  attempts, sdVars, callerVars >>

Reader ==
  \/ ReaderScan \/ ReaderEOF \/ ReaderRespond \/ ReaderDeliver \/ ReaderAbandon
  \/ ReaderCloseStdin \/ ReaderScanErr \/ ReaderWait \/ ReaderSendErr

\* ---------------------------------------------------- shutdown goroutine
\* select { case <-ctx.Done(): stream.interrupt(); case <-interruptCh:
\*          case <-procDone: return }
select1Ready == (IF ctxDone THEN {"ctx"} ELSE {})
                  \cup (IF interruptCh THEN {"interrupt"} ELSE {})
                  \cup (IF procDone THEN {"procDone"} ELSE {})

SdSelect1ExitCloses ==
  /\ sd = "select1"
  /\ \E br \in select1Ready :
       /\ sd' = "closestdin"
       /\ interruptCh' = (interruptCh \/ br = "ctx")
  /\ UNCHANGED << cfgVars, childVars, stdinVars, stdinFull, ctxVars, interruptCalls,
                  procDone, chanVars, received, readerVars, sdLog,
                  timerStarts, callerVars >>

SdSelect1NoClose ==
  /\ sd = "select1"
  /\ \E br \in select1Ready :
       /\ sd' = IF br = "procDone" THEN "done" ELSE "sigterm"
       /\ interruptCh' = (interruptCh \/ br = "ctx")
  /\ UNCHANGED << cfgVars, childVars, stdinVars, stdinFull, ctxVars, interruptCalls,
                  procDone, chanVars, received, readerVars, sdLog,
                  timerStarts, callerVars >>

SdSelect1 ==
  /\ sd = "select1"
  /\ \E br \in select1Ready :
       /\ sd' = IF br = "procDone" THEN "done" ELSE "closestdin"
       /\ interruptCh' = (interruptCh \/ br = "ctx")
  /\ UNCHANGED << cfgVars, childVars, stdinVars, stdinFull, ctxVars, interruptCalls,
                  procDone, chanVars, received, readerVars, sdLog,
                  timerStarts, callerVars >>

SdCloseStdinNoLock ==
  /\ sd = "closestdin"
  /\ stdinClosed' = TRUE
  /\ sdLog' = Append(sdLog, "close")
  /\ sd' = "sigterm"
  /\ UNCHANGED << cfgVars, childVars, stdinLog, stdinMu, stdinFull, ctxVars, interruptCh,
                  interruptCalls, procDone, chanVars, received, readerVars,
                  timerStarts, callerVars >>

\* closeStdin()
SdCloseStdin ==
  /\ sd = "closestdin"
  /\ stdinMu = Free
  /\ stdinClosed' = TRUE
  /\ sdLog' = Append(sdLog, "close")
  /\ sd' = "sigterm"
  /\ UNCHANGED << cfgVars, childVars, stdinLog, stdinMu, stdinFull, ctxVars, interruptCh,
                  interruptCalls, procDone, chanVars, received, readerVars,
                  timerStarts, callerVars >>

\* cmd.Process.Signal(SIGTERM), then time.After(5s) starts the timer.
SdSigterm ==
  /\ sd = "sigterm"
  /\ sdLog' = Append(sdLog, "term")
  /\ timerStarts' = timerStarts + 1
  /\ sd' = "select2"
  /\ UNCHANGED << cfgVars, childVars, stdinVars, stdinFull, ctxVars, interruptCh,
                  interruptCalls, procDone, chanVars, received, readerVars,
                  callerVars >>

\* select { case <-time.After(5s): cmd.Process.Kill(); case <-procDone: }
select2Ready == {"timeout"} \cup (IF procDone THEN {"procDone"} ELSE {})

SdSelect2Again ==
  /\ sd = "select2"
  /\ \E br \in select2Ready :
       /\ sdLog' = IF br = "timeout" THEN Append(sdLog, "kill") ELSE sdLog
       /\ child' = IF br = "timeout" THEN "exited" ELSE child
       /\ exitErr' = IF br = "timeout" /\ child = "running" THEN TRUE ELSE exitErr
  /\ sd' = IF Len(sdLog) < 4 THEN "select1" ELSE "done"
  /\ UNCHANGED << cfgVars, emitted, stderrBuf, stdinVars, stdinFull, ctxVars, interruptCh,
                  interruptCalls, procDone, chanVars, received, readerVars,
                  timerStarts, callerVars >>

SdSelect2 ==
  /\ sd = "select2"
  /\ \E br \in select2Ready :
       /\ sdLog' = IF br = "timeout" THEN Append(sdLog, "kill") ELSE sdLog
       /\ child' = IF br = "timeout" THEN "exited" ELSE child
       /\ exitErr' = IF br = "timeout" /\ child = "running" THEN TRUE ELSE exitErr
  /\ sd' = "done"
  /\ UNCHANGED << cfgVars, emitted, stderrBuf, stdinVars, stdinFull, ctxVars, interruptCh,
                  interruptCalls, procDone, chanVars, received, readerVars,
                  timerStarts, callerVars >>

Shutdown == SdSelect1 \/ SdCloseStdin \/ SdSigterm \/ SdSelect2

\* --------------------------------------------- Stream.sendControlRequest
deleteAll(m, id) == [i \in {} |-> 0]

\* delete(s.pending, reqID)
delete(m, id) == [i \in DOMAIN m \ {id} |-> m[i]]

\* reqID := newUUID(); respCh := make(chan controlResponse, 1);
\* s.pending[reqID] = respCh
CallRegisterWith(c, id) ==
  /\ cpc[c] = "idle"
  /\ reqId' = [reqId EXCEPT ![c] = id]
  /\ pending' = [i \in DOMAIN pending \cup {id} |->
                   IF i = id THEN c ELSE pending[i]]
  /\ cpc' = [cpc EXCEPT ![c] = "write"]
  /\ UNCHANGED << cfgVars, childVars, stdinVars, stdinFull, ctxVars, interruptCh,
                  interruptCalls, procDone, chanVars, received, readerVars,
                  sdVars, respCh, ret >>

CallRegister(c) == CallRegisterWith(c, newUUID(c))

\* err := s.write(control_request); on error the entry is deleted.
CallWrite(c) ==
  /\ cpc[c] = "write"
  /\ stdinMu \in {Free, c}
  /\ IF WriteReturns
       THEN /\ stdinMu' = Free
            /\ IF WriteFails
                 THEN /\ pending' = delete(pending, reqId[c])
                      /\ ret' = [ret EXCEPT ![c] = [val |-> "writeerr", rid |-> NoId, err |-> ""]]
                      /\ cpc' = [cpc EXCEPT ![c] = "returned"]
                      /\ UNCHANGED stdinLog
                 ELSE /\ stdinLog' = Append(stdinLog,
                                       Msg("control_request", reqId[c], "set_model", c))
                      /\ cpc' = [cpc EXCEPT ![c] = "wait"]
                      /\ UNCHANGED << cfgVars, pending, ret >>
       ELSE /\ stdinMu = Free
            /\ stdinMu' = c
            /\ UNCHANGED << cfgVars, stdinLog, pending, ret, cpc >>
  /\ UNCHANGED << cfgVars, childVars, stdinFull, stdinClosed, ctxVars, interruptCh,
                  interruptCalls, procDone, chanVars, received, readerVars,
                  sdVars, reqId, respCh >>

ctlReturnNil(resp) == [val |-> "nil", rid |-> resp.rid, err |-> ""]

\* What sendControlRequest returns for the controlResponse it received:
\* nil, or the error "claude: <subtype>: <resp.Error>".
ctlReturn(resp) ==
  [val |-> IF resp.Success THEN "nil" ELSE "resperr",
   rid |-> resp.rid,
   err |-> IF resp.Success THEN "" ELSE resp.Error]

\* select: case resp := <-respCh
CallRecv(c) ==
  /\ cpc[c] = "wait"
  /\ respCh[c] # << >>
  /\ ret' = [ret EXCEPT ![c] = ctlReturn(Head(respCh[c]))]
  /\ respCh' = [respCh EXCEPT ![c] = Tail(@)]
  /\ cpc' = [cpc EXCEPT ![c] = "returned"]
  /\ UNCHANGED << cfgVars, childVars, stdinVars, stdinFull, ctxVars, interruptCh,
                  interruptCalls, procDone, chanVars, received, readerVars,
                  sdVars, reqId, pending >>

CallCancelKeep(c) ==
  /\ cpc[c] = "wait"
  /\ ctxDone
  /\ ret' = [ret EXCEPT ![c] = [val |-> "ctxerr", rid |-> NoId, err |-> ""]]
  /\ cpc' = [cpc EXCEPT ![c] = "returned"]
  /\ UNCHANGED << cfgVars, childVars, stdinVars, stdinFull, ctxVars, interruptCh,
                  interruptCalls, procDone, chanVars, received, readerVars,
                  sdVars, reqId, respCh, pending >>

\* select: case <-s.ctx.Done(): the entry is deleted, ctx.Err() returned.
CallCancel(c) ==
  /\ cpc[c] = "wait"
  /\ ctxDone
  /\ pending' = delete(pending, reqId[c])
  /\ ret' = [ret EXCEPT ![c] = [val |-> "ctxerr", rid |-> NoId, err |-> ""]]
  /\ cpc' = [cpc EXCEPT ![c] = "returned"]
  /\ UNCHANGED << cfgVars, childVars, stdinVars, stdinFull, ctxVars, interruptCh,
                  interruptCalls, procDone, chanVars, received, readerVars,
                  sdVars, reqId, respCh >>

Caller(c) == CallRegister(c) \/ CallWrite(c) \/ CallRecv(c) \/ CallCancel(c)

\* -------------------------------------------------------- specifications
\* Dispatch scenario: the child emits every kind of line; the host issues no
\* control operation and the child keeps reading its stdin.
DispatchLines ==
  { Line(TypeAssistant, NoId, "", TRUE), Line(TypeResult, NoId, "success", TRUE),
    Line("rate_limit_event", NoId, "", TRUE),
    Line("#empty", NoId, "", FALSE),
    Line("#nonjson", NoId, "", FALSE), Line("#toolong", NoId, "", FALSE),
    Line("#nonstring", NoId, "", FALSE),
    HookLine(1, "cb1"),
    Line("control_request", 2, "set_model", TRUE),
    Line("control_request", 2, "set_max_thinking_tokens", FALSE),
    Line("control_response", InitId, "success", TRUE) }

Next ==
  \/ \E l \in DispatchLines : ChildEmit(l, MaxLines)
  \/ \E e \in BOOLEAN, t \in StderrTexts : (e \/ t = "") /\ ChildExit(e, t)
  \/ Cancel
  \/ Interrupt(1)
  \/ Receive
  \/ Reader
  \/ Shutdown

Spec == Init /\ [][Next]_vars

\* Control scenario: callers issue control operations concurrently and the
\* child answers the requests it has been sent (or not), in any order, any
\* number of times, with either subtype.  Request identifiers are random, so
\* the child only names identifiers it has read from its stdin; the answer to
\* the initialize request is one of them and never has a pending entry.
Requested == {stdinLog[i].rid : i \in 1 .. Len(stdinLog)} \ {NoId}

CtlLine(i, s) ==
  [Line("control_response", i, s, TRUE)
     EXCEPT !.err = IF s = "error" THEN "model not available" ELSE ""]

CtlLines == { CtlLine(i, s) : i \in Requested, s \in {"success", "error"} }

\* A control_response with the request id inside its response object only,
\* the shape handleControlRequest writes.
InnerLine(i, s) == [CtlLine(NoId, s) EXCEPT !.irid = i]

NextCtl ==
  \/ \E l \in CtlLines : ChildEmit(l, MaxCtlLines)
  \/ Cancel
  \/ ReaderScan
  \/ \E c \in Callers : Caller(c)

SpecCtl == Init /\ [][NextCtl]_vars

\* Control requests whose identifiers may coincide.
NextDup ==
  \/ \E l \in CtlLines : ChildEmit(l, MaxCtlLines)
  \/ Cancel
  \/ ReaderScan
  \/ \E c \in Callers :
       \/ \E id \in newUUIDAny(c) : CallRegisterWith(c, id)
       \/ CallWrite(c)
       \/ CallRecv(c)
       \/ CallCancel(c)

SpecDup == Init /\ [][NextDup]_vars

\* Control requests answered in either shape: request_id at the top level or
\* inside the response object.
InnerLines == { InnerLine(i, s) : i \in Requested, s \in {"success", "error"} }

NextInner ==
  \/ \E l \in CtlLines \cup InnerLines : ChildEmit(l, MaxCtlLines)
  \/ ReaderScan
  \/ \E c \in Callers : CallRegister(c) \/ CallWrite(c) \/ CallRecv(c)

SpecInner == Init /\ [][NextInner]_vars

\* Control operations that fail on their own (the write fails once the child
\* has exited, the child answers with subtype error) next to operations that
\* succeed and to event delivery.
ErrLines == CtlLines \cup { Line(TypeAssistant, NoId, "", TRUE) }

NextErr ==
  \/ \E l \in ErrLines : ChildEmit(l, MaxCtlLines)
  \/ \E e \in BOOLEAN : ChildExit(e, "")
  \/ ReaderScan
  \/ ReaderDeliver
  \/ Receive
  \/ \E c \in Callers : CallRegister(c) \/ CallWrite(c) \/ CallRecv(c)

SpecErr == Init /\ [][NextErr]_vars

\* Request scenario: the session is configured with any PermissionHandler
\* (given by the PermissionResult it returns) or none, and with a hook
\* registry that is empty or holds one callback, which returns no output, an
\* output, or an error; the child emits can_use_tool and hook_callback
\* requests and assistant lines.
PermissionResults ==
  { PermissionResult(b, ui, up, m, i) :
      b \in {"allow", "deny", ""}, ui \in {Nil, "{command:ls}"},
      up \in {<< >>, << "addRules" >>}, m \in {"", "blocked"}, i \in BOOLEAN }

HookReturns ==
  { HookReturn(Nil, ""), HookReturn("{decision:approve}", ""), HookReturn(Nil, "hook failed") }

ReqOpts ==
  { [DefaultOpts EXCEPT !.PermissionHandler = r] : r \in PermissionResults \cup {NoHandler} }
ReqHookRegs == { [c \in {} |-> HookReturn(Nil, "")] }
                 \cup { [c \in {"cb1"} |-> h] : h \in HookReturns }

InitReq == \E o \in ReqOpts, reg \in ReqHookRegs : InitWith(o, reg)

ReqLines ==
  { ToolLine(5, "toolu_1"), HookLine(6, "cb1"), Line(TypeAssistant, NoId, "", TRUE) }

NextReq ==
  \/ \E l \in ReqLines : ChildEmit(l, MaxReqLines)
  \/ Receive
  \/ ReaderScan \/ ReaderRespond \/ ReaderDeliver

SpecReq == InitReq /\ [][NextReq]_vars

\* Host-code scenario: as the request scenario, with a PermissionHandler and
\* a hook callback that may also panic or never return.
HostOpts ==
  { [DefaultOpts EXCEPT !.PermissionHandler = h] :
      h \in { NoHandler, PermissionResult("allow", Nil, << >>, "", FALSE),
               [PermissionResult("allow", Nil, << >>, "", FALSE) EXCEPT !.ends = "panics"],
               [PermissionResult("allow", Nil, << >>, "", FALSE) EXCEPT !.ends = "never"] } }

HostHookRegs ==
  { [c \in {"cb1"} |-> h] :
      h \in { HookReturn(Nil, ""), HookReturn(Nil, "hook failed"),
               [HookReturn(Nil, "") EXCEPT !.ends = "panics"],
               [HookReturn(Nil, "") EXCEPT !.ends = "never"] } }

InitHost == \E o \in HostOpts, reg \in HostHookRegs : InitWith(o, reg)

SpecHost == InitHost /\ [][NextReq]_vars

\* Run scenario: Run is the consumer; the child emits domain lines, among
\* them results that report success, results with is_error, a result whose
\* typed decode fails and system lines, and exits with or without an error.
\* ctx is the caller's and is not cancelled here.
RunLines ==
  { Line(TypeAssistant, NoId, "", TRUE),
    Line(TypeResult, NoId, "success", TRUE),
    ErrorResultLine("error_max_turns"),
    Line(TypeResult, NoId, "success", FALSE),
    Line(TypeSystem, NoId, "init", TRUE),
    Line(TypeSystem, NoId, "error", TRUE) }

NextRun ==
  \/ \E l \in RunLines : ChildEmit(l, MaxRunLines)
  \/ \E e \in BOOLEAN, t \in StderrTexts : (e \/ t = "") /\ ChildExit(e, t)
  \/ Receive
  \/ ReaderScan \/ ReaderEOF \/ ReaderDeliver \/ ReaderCloseStdin
  \/ ReaderWait \/ ReaderSendErr

SpecRun == Init /\ [][NextRun]_vars

\* What Run has returned, or "running": it has ranged over the received
\* events and sees the channel closed once it is closed and drained.
RunResult == Run(received, eventsClosed > 0 /\ events = << >>)

\* Shutdown scenario: cancellation, Interrupt() calls and process exit race
\* with the reader and with a caller writing to a stdin pipe that may be full.
SdLines == { Line(TypeAssistant, NoId, "", TRUE), Line(TypeResult, NoId, "success", TRUE) }

NextSd ==
  \/ \E l \in SdLines : ChildEmit(l, MaxSdLines)
  \/ \E f \in BOOLEAN : ChildStdin(f)
  \/ \E e \in BOOLEAN : ChildExit(e, "")
  \/ Cancel
  \/ Interrupt(MaxInterrupts)
  \/ Receive
  \/ ReaderScan \/ ReaderEOF \/ ReaderDeliver \/ ReaderAbandon
  \/ ReaderCloseStdin \/ ReaderWait \/ ReaderSendErr
  \/ Shutdown
  \/ \E c \in 1 .. NumWriters : CallRegister(c) \/ CallWrite(c) \/ CallCancel(c)

SpecSd == Init /\ [][NextSd]_vars

\* Everything that takes stdinMu: the write of a caller's control_request,
\* the reader's write of a control_response, closeStdin() in the reader after
\* the result and closeStdin() in the shutdown goroutine; the child may stop
\* reading its stdin.
IOLines == { Line("control_request", 2, "set_model", TRUE),
             Line(TypeResult, NoId, "success", TRUE) }

NextIO ==
  \/ \E l \in IOLines : ChildEmit(l, MaxIOLines)
  \/ \E f \in BOOLEAN : ChildStdin(f)
  \/ \E e \in BOOLEAN : ChildExit(e, "")
  \/ Interrupt(1)
  \/ Receive
  \/ ReaderScan \/ ReaderRespond \/ ReaderDeliver \/ ReaderCloseStdin
  \/ Shutdown
  \/ \E c \in 1 .. NumWriters : CallRegister(c) \/ CallWrite(c)

SpecIO == Init /\ [][NextIO]_vars

\* spawnAndStream from cmd.Start() on: the two handshake writes, then the
\* session.  A handshake write fails when the child has exited, and may fail
\* while it runs (json.Marshal error, the child closed its end of the pipe).
SpawnWrite ==
  /\ spawn \in {"initialize", "user"}
  /\ child = "running"
  /\ HasSpace
  /\ stdinLog' = Append(stdinLog, handshakeMsg(spawn))
  /\ spawn' = IF spawn = "initialize" THEN "user" ELSE "started"
  /\ UNCHANGED << opts, hookReg, environ, cmdEnv, childVars, stdinClosed, stdinMu, stdinFull, ctxVars,
                  interruptCh, interruptCalls, procDone, chanVars, received,
                  readerVars, sdVars, callerVars >>

\* The write returns an error: cmd.Process.Kill(), return nil, err.
SpawnFail ==
  /\ spawn \in {"initialize", "user"}
  /\ spawn' = "failed"
  /\ child' = "exited"
  /\ exitErr' = IF child = "running" THEN TRUE ELSE exitErr
  /\ UNCHANGED << opts, hookReg, environ, cmdEnv, stderrBuf, emitted, stdinVars, stdinFull, ctxVars,
                  interruptCh, interruptCalls, procDone, chanVars, received,
                  readerVars, sdVars, callerVars >>

HsLines == { Line("control_response", InitId, "success", TRUE),
             Line(TypeAssistant, NoId, "", TRUE),
             Line("control_request", 2, "set_model", TRUE) }

InitHs == InitAt(DefaultOpts, DefaultHookReg, "initialize", << >>)

NextHs ==
  \/ SpawnWrite
  \/ SpawnFail
  \/ \E l \in HsLines : ChildEmit(l, MaxHsLines)
  \/ \E f \in BOOLEAN : ChildStdin(f)
  \/ \E e \in BOOLEAN : ChildExit(e, "")
  \/ /\ spawn = "started"
     /\ \/ ReaderScan \/ ReaderRespond \/ ReaderDeliver
        \/ Receive
        \/ \E c \in 1 .. NumWriters : CallRegister(c) \/ CallWrite(c)

SpecHs == InitHs /\ [][NextHs]_vars

\* A session that is interrupted and never cancelled: Interrupt() calls, the
\* shutdown goroutine, the reader up to its return, a consumer that keeps
\* ranging over Events().  Fairness as the Go runtime gives it: a goroutine
\* that can take a step eventually takes it.
ReaderInt ==
  \/ ReaderScan \/ ReaderEOF \/ ReaderDeliver
  \/ ReaderCloseStdin \/ ReaderWait \/ ReaderSendErr

NextInt ==
  \/ \E l \in SdLines : ChildEmit(l, MaxSdLines)
  \/ \E e \in BOOLEAN : ChildExit(e, "")
  \/ Interrupt(MaxInterrupts)
  \/ Receive
  \/ ReaderInt
  \/ Shutdown

SpecInt ==
  /\ Init /\ [][NextInt]_vars
  /\ WF_vars(ReaderInt)
  /\ WF_vars(Shutdown)
  /\ WF_vars(Receive)

\* The same scenario with the scheduling the Go runtime gives: a goroutine
\* that can take a step eventually takes it (the reader, the shutdown
\* goroutine whose 5-second timer eventually fires, a caller inside
\* sendControlRequest), and the consumer keeps ranging over Events().  Nothing
\* is assumed of the child or of whoever may cancel ctx or call Interrupt().
ReaderSd ==
  \/ ReaderScan \/ ReaderEOF \/ ReaderDeliver \/ ReaderAbandon
  \/ ReaderCloseStdin \/ ReaderWait \/ ReaderSendErr

WriterSd == \E c \in 1 .. NumWriters : CallRegister(c) \/ CallWrite(c) \/ CallCancel(c)

SpecLive ==
  /\ Init /\ [][NextSd]_vars
  /\ WF_vars(ReaderSd)
  /\ WF_vars(Shutdown)
  /\ WF_vars(WriterSd)
  /\ WF_vars(Receive)


\* Environment scenario: spawnAndStream before cmd.Start(), for any Options
\* (Env, Thinking, MaxThinkingTokens) and any parent environment of at most
\* MaxEnviron entries.
EnvKeys ==
  { "PATH", "CLAUDECODE", "CLAUDE_CODE_ENTRYPOINT", "MAX_THINKING_TOKENS",
    "CLAUDE_AGENT_SDK_VERSION", "" }

ParentEnvs ==
  UNION { [1 .. n -> { EnvEntry(k, "p") : k \in EnvKeys }] : n \in 0 .. MaxEnviron }

UserEnvs == UNION { [K -> {"u"}] : K \in SUBSET {"PATH", "CLAUDE_CODE_ENTRYPOINT"} }

EnvOpts ==
  { [DefaultOpts EXCEPT !.Env = m, !.Thinking = t, !.MaxThinkingTokens = n] :
      m \in UserEnvs,
      t \in {ThinkingAdaptive, ThinkingDisabled, ThinkingEnabled},
      n \in {0, 1024} }

InitEnv ==
  \E o \in EnvOpts, parent \in ParentEnvs :
    InitFrom(o, parent, << >>, DefaultHookReg, "exec", << >>)

\* cmd.Env = buildEnv(opts)
BuildCmdEnv ==
  /\ spawn = "exec"
  /\ \E ord \in EnvOrders(opts.Env) : cmdEnv' = buildEnv(opts, environ, ord)
  /\ spawn' = "initialize"
  /\ UNCHANGED << opts, hookReg, environ, childVars, stdinVars, stdinFull, ctxVars,
                  interruptCh, interruptCalls, procDone, chanVars, received,
                  readerVars, sdVars, callerVars >>

NextEnv == BuildCmdEnv

SpecEnv == InitEnv /\ [][NextEnv]_vars

\* ------------------------------------------------------------ properties
IsPrefix(a, b) == Len(a) <= Len(b) /\ \A k \in 1 .. Len(a) : a[k] = b[k]

\* Indices of the domain lines the child emitted, in emission order
DomainIdx ==
  SelectSeq([i \in 1 .. Len(emitted) |-> i], LAMBDA i : IsDomain(emitted[i]))

\* Indices of the stdout lines the received events were parsed from
ReceivedSrc ==
  LET fromChild == SelectSeq(received, LAMBDA e : e.src # 0)
  IN  [k \in 1 .. Len(fromChild) |-> fromChild[k].src]

\* C1 (as amended): the events the consumer received that come from the
\* child are, in emission order and with none skipped, an initial part of
\* the domain lines the child emitted, each with the type of its line; the
\* only other events are synthesized system/error events, which come last;
\* no control_request or control_response is ever received.
C1_OrderedPrefix ==
  /\ IsPrefix(ReceivedSrc, DomainIdx)
  /\ \A k \in 1 .. Len(received) :
       /\ ~IsControl(received[k])
       /\ received[k].src # 0 => received[k].type = emitted[received[k].src].type
       /\ received[k].src = 0 =>
            /\ received[k].type = TypeSystem /\ received[k].sub = "error"
            /\ \A j \in k .. Len(received) : received[j].src = 0

\* C1 witness: the consumer received two events parsed from two domain lines
C1_Witness ==
  /\ Len(received) = 2
  /\ received[1].src = 1
  /\ received[2].src = 2

\* C1 (as stated): once a session that delivered its result event is over
\* (the reader has finished, the child has exited, ctx was never cancelled,
\* the consumer has drained the channel), the events received from the
\* child are exactly the domain lines the child emitted.
C1_Original ==
  (rdr = "done" /\ gotResult /\ child = "exited" /\ ~ctxDone /\ events = << >>)
    => ReceivedSrc = DomainIdx


\* A control_request line whose envelope handleControlRequest decodes
Handled(i) == emitted[i].type = "control_request" /\ emitted[i].wf

\* Number of control_response writes the reader made for stdout line i
WritesFor(i) == Cardinality({k \in 1 .. Len(attempts) : attempts[k].idx = i})

ReadResponses(id) ==
  {i \in 1 .. rd : emitted[i].type = "control_response" /\ emitted[i].rid = id}

\* C3: with several callers waiting at once and the child answering in any
\* order, a response is only ever handed to the caller whose request carries
\* the same identifier: whatever sits in a caller's channel, and whatever a
\* caller returned from, has that caller's own request id and comes from a
\* line the reader read with that id; a caller is handed at most one response
\* (its channel never holds more than one, and once it has received one its
\* channel stays empty); a waiting caller either still has its entry in the
\* pending table, no response to it having been read, or has its one response
\* buffered, never both.
C3_RoutedToOwner ==
  \A c \in Callers :
    /\ Len(respCh[c]) <= 1
    /\ respCh[c] # << >> =>
         /\ Head(respCh[c]).rid = reqId[c]
         /\ ReadResponses(reqId[c]) # {}
    /\ ret[c].val \in {"nil", "resperr"} =>
         /\ ret[c].rid = reqId[c]
         /\ respCh[c] = << >>
         /\ \E i \in ReadResponses(reqId[c]) :
              (ret[c].val = "nil") = (emitted[i].sub # "error")
    /\ cpc[c] = "wait" =>
         IF reqId[c] \in DOMAIN pending
           THEN pending[reqId[c]] = c /\ respCh[c] = << >> /\ ReadResponses(reqId[c]) = {}
           ELSE Len(respCh[c]) = 1
    /\ \A d \in Callers : (c # d /\ cpc[c] # "idle" /\ cpc[d] # "idle") => reqId[c] # reqId[d]

\* Both callers wrote their requests, the child answered them in the opposite
\* order, and each caller returned with the response to its own request.
C3_Witness ==
  /\ Len(stdinLog) = 4
  /\ rd = 2
  /\ emitted[1].rid = stdinLog[4].rid
  /\ emitted[2].rid = stdinLog[3].rid
  /\ \A c \in Callers : cpc[c] = "returned" /\ ret[c].val \in {"nil", "resperr"}
                         /\ ret[c].rid = reqId[c]

\* C4: a caller that was waiting when ctx was cancelled and has returned,
\* returned the context error unless its own response had been routed to it
\* and the select took that case; whichever way a caller returned, its entry
\* is gone from the pending table; a caller that returned the context error
\* is handed nothing afterwards, its channel holding at most the response
\* that was routed before it returned; and a waiting caller can return at
\* once when ctx is cancelled.
C4_CancelCleansUp ==
  \A c \in Callers :
    /\ cpc[c] = "returned" => reqId[c] \notin DOMAIN pending
    /\ (c \in cancelledWaiting /\ cpc[c] = "returned") =>
         \/ ret[c].val = "ctxerr"
         \/ ret[c].val \in {"nil", "resperr"} /\ ret[c].rid = reqId[c]
    /\ ret[c].val = "ctxerr" =>
         /\ ctxDone
         /\ Len(respCh[c]) <= 1
         /\ respCh[c] # << >> => Head(respCh[c]).rid = reqId[c]
    /\ (ctxDone /\ cpc[c] = "wait") => ENABLED CallCancel(c)

\* A response that arrives after its caller returned on cancellation is
\* delivered to nobody: every channel is left as it was by the step that
\* reads it.
C4_LateDiscarded ==
  [][\A c \in Callers :
       (cpc[c] = "returned" /\ ret[c].val = "ctxerr" /\ rd' = rd + 1 /\
        emitted[rd'].type = "control_response" /\ emitted[rd'].rid = reqId[c])
       => respCh' = respCh /\ ret' = ret /\ pending' = pending]_vars

\* C4, both parts: cancellation cleans up and a late response reaches nobody.
C4_Theorem == [] C4_CancelCleansUp /\ C4_LateDiscarded

\* A caller was waiting when ctx was cancelled, returned the context error,
\* and the reader then read a response carrying its identifier, which reached
\* no channel.
C4_Witness ==
  \E c \in Callers :
    /\ c \in cancelledWaiting
    /\ cpc[c] = "returned"
    /\ ret[c].val = "ctxerr"
    /\ ReadResponses(reqId[c]) # {}
    /\ \A d \in Callers : respCh[d] = << >>

\* C4 as stated: an operation that was waiting when ctx was cancelled returns
\* an error.
C4_Original ==
  \A c \in cancelledWaiting : cpc[c] = "returned" => ret[c].val # "nil"

\* How many times the shutdown goroutine has done x.
Count(log, x) == Cardinality({i \in 1 .. Len(log) : log[i] = x})

\* C5: however shutdown is triggered (ctx cancellation, repeated Interrupt()
\* calls, both), the shutdown goroutine closes stdin at most once, sends
\* SIGTERM at most once, starts the escalation timer at most once and kills
\* at most once.
C5_AtMostOnce ==
  /\ Count(sdLog, "close") <= 1
  /\ Count(sdLog, "term") <= 1
  /\ Count(sdLog, "kill") <= 1
  /\ timerStarts <= 1
  /\ timerStarts = Count(sdLog, "term")

\* Shutdown was triggered by ctx cancellation and by two Interrupt() calls,
\* and the sequence has run to its end.
C5_Witness ==
  /\ ctxDone
  /\ interruptCalls >= 2
  /\ sd = "done"
  /\ timerStarts = 1
  /\ Count(sdLog, "term") = 1

\* C6: what the shutdown goroutine has done is always an initial part of
\* close stdin, SIGTERM, SIGKILL, and matches how far it has got: nothing
\* before the first select fires, SIGTERM only right after the close, SIGKILL
\* only out of the second select.
C6_Ordered ==
  /\ IsPrefix(sdLog, << "close", "term", "kill" >>)
  /\ sd \in {"select1", "closestdin"} => sdLog = << >>
  /\ sd = "sigterm" => sdLog = << "close" >>
  /\ sd = "select2" => sdLog = << "close", "term" >>
  /\ "kill" \in {sdLog[i] : i \in 1 .. Len(sdLog)} => sd = "done"

\* The timeout won the race: all three steps were taken, in order.
C6_Witness == sdLog = << "close", "term", "kill" >> /\ sd = "done"

\* C7 as stated: once shutdown was triggered with the subprocess running, the
\* shutdown goroutine does not finish without having sent SIGTERM unless the
\* subprocess has exited.
C7_Original ==
  (sd = "done" /\ (ctxDone \/ interruptCh) /\ child = "running")
    => Count(sdLog, "term") = 1

\* C8 as stated: after SIGTERM, the shutdown goroutine finishes without
\* SIGKILL only when the subprocess has exited.
C8_Original ==
  (sd = "done" /\ Count(sdLog, "term") = 1 /\ Count(sdLog, "kill") = 0)
    => child = "exited"

\* C9: the events channel is closed at most once, it is closed exactly when
\* the reader goroutine has returned, and nothing is sent on it once closed.
C9_ClosedOnce ==
  /\ eventsClosed <= 1
  /\ (eventsClosed = 1) = (rdr = "done")
  /\ ~sentAfterClose
  /\ rdr = "done" => exitPath \in {"result", "eof", "readerr", "cancel"}

\* The reader returned after the child exited with an error: the error event
\* it synthesized was sent and received, and the channel was then closed.
C9_Witness ==
  /\ rdr = "done"
  /\ eventsClosed = 1
  /\ exitPath = "eof"
  /\ received # << >>
  /\ received[Len(received)].src = 0

\* C10 as stated: once a result has been delivered, or the subprocess has
\* exited, or ctx has been cancelled, the events channel is eventually closed.
C10_Original ==
  (gotResult \/ child = "exited" \/ ctxDone) ~> (eventsClosed > 0)

\* C11 as stated: a control operation whose request was written eventually
\* returns even when the reader loop has ended (the subprocess exited or a
\* result was seen) and ctx is never cancelled.
C11_Original ==
  \A c \in 1 .. NumWriters :
    (cpc[c] = "wait" /\ rdr = "done") ~> (cpc[c] = "returned")

\* Everything sent on the events channel so far, in order.
Sent == received \o events
\* Positions in Sent of the events the reader synthesized.
Synth == {i \in 1 .. Len(Sent) : Sent[i].src = 0}

\* C12: synthesized events are system/error events and come after every event
\* parsed from a line; there are at most two, and two only after a read
\* error, the first then being the read-error event; none exists once a
\* result was delivered; an exit-error event exists only if cmd.Wait()
\* failed with no result delivered.  When the reader is done after end of
\* stdout, the child having exited with an error before any result and ctx
\* not cancelled, exactly one synthesized event was sent, its message is the
\* trimmed stderr, or the exit error text when stderr is empty, and the
\* channel is closed.
C12_ErrorEvent ==
  /\ \A i \in Synth : Sent[i].type = TypeSystem /\ Sent[i].sub = "error" /\ Sent[i].typed
  /\ \A i \in Synth : \A j \in 1 .. Len(Sent) : j > i => j \in Synth
  /\ Cardinality(Synth) <= 2
  /\ Cardinality(Synth) = 2 =>
       /\ exitPath = "readerr"
       /\ \E i \in Synth : Sent[i].msg = "stdout read error" /\ i + 1 \in Synth
  /\ gotResult => Synth = {}
  /\ \A i \in Synth : Sent[i].msg # "stdout read error" => exitErr /\ ~gotResult /\ rdr = "done"
  /\ (rdr = "done" /\ exitErr /\ ~gotResult /\ exitPath = "eof" /\ ~ctxDone) =>
       /\ Cardinality(Synth) = 1
       /\ Sent # << >>
       /\ Sent[Len(Sent)].msg = (IF stderrBuf = "" THEN "exit status 1" ELSE "bad flag")
       /\ eventsClosed = 1

\* The child wrote "bad flag" to stderr and exited with an error before any
\* result; the consumer received the one error event carrying that text and
\* the channel is closed and drained.
C12_Witness ==
  /\ rdr = "done"
  /\ exitErr
  /\ ~gotResult
  /\ stderrBuf = "bad flag\n"
  /\ events = << >>
  /\ eventsClosed = 1
  /\ Cardinality(Synth) = 1
  /\ received[Len(received)].msg = "bad flag"

\* C12 as stated: the child exited with an error before any result was
\* delivered (ctx not cancelled), the reader is done: exactly one
\* synthesized event was sent, carrying the stderr or exit error text.
C12_Original ==
  (rdr = "done" /\ exitErr /\ ~gotResult /\ ~ctxDone) =>
    /\ Cardinality(Synth) = 1
    /\ \A i \in Synth : Sent[i].msg \in {"bad flag", "exit status 1"}

\* An event on which Run returns.
Decisive(e) == e.type = TypeResult \/ (e.type = TypeSystem /\ e.typed /\ e.sub = "error")
\* The position in the received events of the first such event, 0 if none.
FirstDecisive ==
  IF \E i \in 1 .. Len(received) : Decisive(received[i])
    THEN CHOOSE i \in 1 .. Len(received) :
           /\ Decisive(received[i])
           /\ \A j \in 1 .. i - 1 : ~Decisive(received[j])
    ELSE 0

\* C13: Run returns the Result of the first result event, with a nil error,
\* when that event comes before any system/error event and reports success;
\* it returns an error when that first result has IsError set; it returns an
\* error carrying the event's message when a system/error event comes first;
\* it returns the error "agent finished without a result message" when the
\* channel is closed and drained with neither; and it has not returned
\* otherwise.
C13_RunReturns ==
  IF FirstDecisive = 0
    THEN IF eventsClosed > 0 /\ events = << >>
           THEN RunResult = RunReturn("error", 0, "claude: agent finished without a result message")
           ELSE RunResult.kind = "running"
    ELSE LET e == received[FirstDecisive] IN
         /\ (e.type = TypeResult /\ e.typed /\ ~e.isError) =>
              /\ RunResult.kind = "ok"
              /\ RunResult.src = e.src
              /\ emitted[e.src].type = TypeResult /\ ~emitted[e.src].isError
         /\ (e.type = TypeResult /\ e.typed /\ e.isError) => RunResult.kind = "error"
         /\ e.type = TypeSystem => RunResult.kind = "error" /\ RunResult.text = e.msg

\* An assistant line, then a result reporting success: Run returned that
\* result's payload.
C13_Witness ==
  /\ Len(received) = 2
  /\ received[1].type = TypeAssistant
  /\ received[2].type = TypeResult
  /\ RunResult = RunReturn("ok", 2, "")

\* C14 as stated: an event of a known kind whose typed decode failed is
\* delivered with its discriminant and no typed field, and Run, receiving
\* such a result event, still returns a result or an error.
C14_Original ==
  \A i \in 1 .. Len(received) :
    (received[i].type = TypeResult /\ ~received[i].typed /\ FirstDecisive = i)
      => RunResult.kind \in {"ok", "error"}

\* The control responses the reader wrote to stdin, in order; in the request
\* scenario every write succeeds, so the k-th one answers the line
\* attempts[k].idx.
Answers == SelectSeq(stdinLog, LAMBDA m : m.by = ReaderId)
Asked(k) == emitted[attempts[k].idx]
Answered == 1 .. Len(Answers)

\* C15: with no PermissionHandler, a can_use_tool request is answered by a
\* success control_response with the same request id whose response object
\* holds allowed = true and the tool use id and nothing else, no host
\* function having been called.
C15_DefaultAllow ==
  /\ Len(Answers) = Len(attempts)
  /\ \A k \in Answered :
       (Asked(k).sub = "can_use_tool" /\ opts.PermissionHandler = NoHandler) =>
         /\ Answers[k].type = "control_response"
         /\ Answers[k].sub = "success"
         /\ Answers[k].rid = Asked(k).rid
         /\ Answers[k].hasResp
         /\ Answers[k].resp.allowed
         /\ Answers[k].resp.keys = {"allowed", "toolUseID"}
         /\ Answers[k].resp.toolUseID = Asked(k).tuid
         /\ Answers[k].calls = << >>

\* No handler is set and a can_use_tool request has been answered.
C15_Witness ==
  /\ opts.PermissionHandler = NoHandler
  /\ \E k \in Answered : Asked(k).sub = "can_use_tool" /\ Answers[k].resp.allowed

\* Indices of the domain lines among the first n stdout lines, in order
DomainIdxTo(n) == SelectSeq([i \in 1 .. n |-> i], LAMBDA i : IsDomain(emitted[i]))

\* C16: with a PermissionHandler set, a can_use_tool request is answered by a
\* success control_response with the same request id, the handler having
\* been called once; allowed is false exactly when the handler returned
\* "deny"; a denial with a message carries that message; and the events sent
\* to the consumer are exactly the domain lines read so far, in order, the
\* request lines adding, removing and reordering nothing.
C16_Deny ==
  /\ \A k \in Answered :
       (Asked(k).sub = "can_use_tool" /\ opts.PermissionHandler # NoHandler) =>
         /\ Answers[k].sub = "success"
         /\ Answers[k].rid = Asked(k).rid
         /\ Answers[k].calls = << "PermissionHandler" >>
         /\ Answers[k].resp.allowed = (opts.PermissionHandler.Behavior # "deny")
         /\ (opts.PermissionHandler.Behavior = "deny" /\ opts.PermissionHandler.Message # "") =>
              /\ ~Answers[k].resp.allowed
              /\ "message" \in Answers[k].resp.keys
              /\ Answers[k].resp.message = opts.PermissionHandler.Message
  /\ [i \in 1 .. Len(Sent) |-> Sent[i].src]
       = DomainIdxTo(IF rdr = "deliver" THEN rd - 1 ELSE rd)

\* The handler denied with the message "blocked": the request between two
\* assistant lines was answered with allowed = false and the message, and
\* both assistant events reached the consumer.
C16_Witness ==
  /\ opts.PermissionHandler.Behavior = "deny"
  /\ opts.PermissionHandler.Message = "blocked"
  /\ Len(emitted) = 3 /\ emitted[2].sub = "can_use_tool"
  /\ Len(received) = 2
  /\ \E k \in Answered :
       /\ ~Answers[k].resp.allowed
       /\ Answers[k].resp.message = "blocked"

\* C17 as stated: the response carries interrupt exactly when the handler
\* returned "deny" with Interrupt set, never on an allow decision.
C17_Original ==
  \A k \in Answered :
    Asked(k).sub = "can_use_tool" =>
      ("interrupt" \in Answers[k].resp.keys)
        = (opts.PermissionHandler.Behavior = "deny" /\ opts.PermissionHandler.Interrupt)

\* C18 as stated: updatedInput and updatedPermissions are forwarded unchanged
\* and appear in the response only when the decision is allow.
C18_Original ==
  \A k \in Answered :
    Asked(k).sub = "can_use_tool" =>
      /\ "updatedInput" \in Answers[k].resp.keys =>
           Answers[k].resp.allowed /\ Answers[k].resp.updatedInput = opts.PermissionHandler.UpdatedInput
      /\ "updatedPermissions" \in Answers[k].resp.keys =>
           Answers[k].resp.allowed
             /\ Answers[k].resp.updatedPermissions = opts.PermissionHandler.UpdatedPermissions

\* C19: a hook_callback naming a callback that is not registered is answered
\* by a success control_response with the same request id and no response
\* object, no host function having been called; a registered callback is
\* called once, and when it returns an output and no error the success
\* response carries that output.
C19_Hook ==
  \A k \in Answered :
    Asked(k).sub = "hook_callback" =>
      /\ Answers[k].rid = Asked(k).rid
      /\ Asked(k).cb \notin DOMAIN hookReg =>
           /\ Answers[k].sub = "success"
           /\ ~Answers[k].hasResp
           /\ Answers[k].resp = NoPayload
           /\ Answers[k].calls = << >>
      /\ Asked(k).cb \in DOMAIN hookReg =>
           /\ Answers[k].calls = << Asked(k).cb >>
           /\ (hookReg[Asked(k).cb].err = "" /\ hookReg[Asked(k).cb].output # Nil) =>
                /\ Answers[k].sub = "success"
                /\ Answers[k].hasResp
                /\ Answers[k].resp.output = hookReg[Asked(k).cb].output
           /\ (hookReg[Asked(k).cb].err = "" /\ hookReg[Asked(k).cb].output = Nil) =>
                /\ Answers[k].sub = "success"
                /\ ~Answers[k].hasResp

\* The registered callback returned an output, which was sent back.
C19_Witness ==
  /\ "cb1" \in DOMAIN hookReg
  /\ \E k \in Answered :
       /\ Asked(k).sub = "hook_callback"
       /\ Answers[k].hasResp
       /\ Answers[k].resp.output = "{decision:approve}"

\* C20: when the registered callback returns an error, the one write made
\* for the request is a control_response of subtype error with the same
\* request id and the error text, and the reader goes on to scan the next
\* line: the lines after it are read, answered and delivered.
C20_HookError ==
  /\ \A k \in Answered :
       (Asked(k).sub = "hook_callback" /\ Asked(k).cb \in DOMAIN hookReg
          /\ hookReg[Asked(k).cb].err # "") =>
         /\ Answers[k].sub = "error"
         /\ Answers[k].rid = Asked(k).rid
         /\ Answers[k].err = hookReg[Asked(k).cb].err
         /\ ~Answers[k].hasResp
         /\ WritesFor(attempts[k].idx) = 1
  /\ rdr \in {"scan", "respond", "deliver"}
  /\ eventsClosed = 0
  /\ rdr = "respond" => Len(out) = 1
  /\ \A i \in 1 .. rd :
       Handled(i) => WritesFor(i) = IF i = rd /\ rdr = "respond" THEN 0 ELSE 1

\* The callback failed on the first line; the error response was written and
\* the assistant line after it was read and delivered.
C20_Witness ==
  /\ Len(emitted) = 2
  /\ emitted[1].sub = "hook_callback"
  /\ emitted[2].type = TypeAssistant
  /\ Len(Answers) = 1
  /\ Answers[1].sub = "error"
  /\ Answers[1].err = "hook failed"
  /\ Len(received) = 1
  /\ received[1].src = 2

\* C21 as stated: whatever the host function called for a request does, the
\* reader answers every request it has read (or is about to write the
\* answer) and stays in its loop.
C21_Original ==
  /\ rdr \in {"scan", "respond", "deliver"}
  /\ \A i \in 1 .. rd :
       Handled(i) => WritesFor(i) = IF i = rd /\ rdr = "respond" THEN 0 ELSE 1

\* C22 as stated: every control_request the reader has read whose subtype is
\* neither can_use_tool nor hook_callback has been acknowledged by a success
\* control_response with the same request id.
C22_Original ==
  \A i \in 1 .. rd :
    (emitted[i].type = "control_request"
       /\ emitted[i].sub \notin {"can_use_tool", "hook_callback"}
       /\ ~(i = rd /\ rdr = "respond"))
    => \E k \in 1 .. Len(attempts) :
         /\ attempts[k].idx = i
         /\ attempts[k].sub = "success"
         /\ attempts[k].rid = emitted[i].rid

\* C23: when the reader reads a control_response whose identifier has no entry
\* in the pending table, the table, every reply channel, every caller and the
\* events channel are unchanged and the reader goes on scanning.
C23_MissDiscarded ==
  [][(rd' = rd + 1
        /\ emitted[rd + 1].type = "control_response"
        /\ emitted[rd + 1].rid \notin DOMAIN pending)
     => /\ pending' = pending
        /\ respCh' = respCh
        /\ cpc' = cpc
        /\ ret' = ret
        /\ events' = events
        /\ eventsClosed' = eventsClosed
        /\ rdr' = "scan"]_vars

\* A caller has returned with the first answer to its request and the reader
\* has read and dropped a second answer to the same request.
C23_Witness ==
  \E c \in Callers :
    /\ cpc[c] = "returned"
    /\ ret[c].val = "nil"
    /\ rd = 2
    /\ emitted[1].type = "control_response" /\ emitted[1].rid = reqId[c]
    /\ emitted[2].type = "control_response" /\ emitted[2].rid = reqId[c]
    /\ respCh[c] = << >>

\* C24: every entry of the pending table belongs to a caller that is inside
\* sendControlRequest (writing its request or waiting for the reply) with the
\* entry's identifier; a caller that has not started or has returned owns no
\* entry.
C24_EntriesOwned ==
  /\ \A id \in DOMAIN pending :
       /\ pending[id] \in Callers
       /\ cpc[pending[id]] \in {"write", "wait"}
       /\ reqId[pending[id]] = id
  /\ \A c \in Callers :
       cpc[c] \in {"idle", "returned"} => \A id \in DOMAIN pending : pending[id] # c

\* One caller has returned with its reply while another is still waiting and
\* the table holds exactly the entry of the one waiting.
C24_Witness ==
  \E c, d \in Callers :
    /\ cpc[c] = "returned" /\ ret[c].val = "nil"
    /\ cpc[d] = "wait" /\ respCh[d] = << >>
    /\ DOMAIN pending = {reqId[d]}
    /\ pending[reqId[d]] = d

\* C25 as stated: no step replaces the caller of an identifier that is
\* already in the pending table.
C25_Original ==
  [][\A id \in DOMAIN pending :
       id \in DOMAIN pending' => pending'[id] = pending[id]]_vars

\* C29: when the line scanner.Scan() returns is empty or is not valid JSON,
\* the reader sends no event, writes nothing to stdin, leaves the pending
\* table and the reply channels alone and goes back to scanning.
C29_Skipped ==
  [][(rd' = rd + 1 /\ IsSkipped(emitted[rd + 1]))
     => /\ events' = events
        /\ eventsClosed' = eventsClosed
        /\ stdinLog' = stdinLog
        /\ attempts' = attempts
        /\ out' = << >>
        /\ pending' = pending
        /\ respCh' = respCh
        /\ gotResult' = gotResult
        /\ exitPath' = exitPath
        /\ rdr' = "scan"]_vars

\* A non-JSON line was read, then the assistant line after it was delivered
\* and received as the only event; nothing was written to stdin for either.
C29_Witness ==
  /\ Len(emitted) = 2 /\ rd = 2
  /\ emitted[1].type = "#nonjson"
  /\ emitted[2].type = TypeAssistant
  /\ Len(received) = 1 /\ received[1].src = 2
  /\ attempts = << >>

\* C26: the reply channel of every entry in the pending table has room for
\* one value, so the send in routeControlResponse completes at once; and the
\* step that reads a control_response takes the reader straight back to
\* scanning without any step of a caller, whether the caller is waiting, has
\* returned or ctx is cancelled.
C26_NeverBlocks ==
  /\ [](\A id \in DOMAIN pending : Len(respCh[pending[id]]) < 1)
  /\ [][(rd' = rd + 1 /\ emitted[rd + 1].type = "control_response")
        => /\ rdr' = "scan"
           /\ cpc' = cpc
           /\ ret' = ret
           /\ \A c \in Callers : Len(respCh'[c]) <= 1]_vars

\* ctx is cancelled and a caller has not yet left its select; the reader has
\* routed the reply into the caller's channel and is scanning again.
C26_Witness ==
  \E c \in Callers :
    /\ cpc[c] = "wait"
    /\ ctxDone
    /\ Len(respCh[c]) = 1
    /\ reqId[c] \notin DOMAIN pending
    /\ rdr = "scan"
    /\ rd >= 1

\* C27: while one goroutine is inside stdin.Write holding stdinMu, no other
\* goroutine writes a line, takes the mutex or closes stdin; every step adds
\* at most one whole line to the child's stdin, after the lines already
\* there.
C27_Exclusive ==
  [][/\ IsPrefix(stdinLog, stdinLog')
     /\ Len(stdinLog') <= Len(stdinLog) + 1
     /\ stdinMu # Free =>
          /\ stdinMu' \in {stdinMu, Free}
          /\ stdinClosed' = stdinClosed
          /\ stdinLog' # stdinLog =>
               /\ stdinLog'[Len(stdinLog')].by = stdinMu
               /\ stdinMu' = Free]_vars

\* A caller is blocked inside stdin.Write holding stdinMu while the reader has
\* a control_response to write and the shutdown goroutine is about to close
\* stdin.
C27_Witness ==
  /\ stdinMu \in 1 .. NumWriters
  /\ cpc[stdinMu] = "write"
  /\ rdr = "respond"
  /\ sd = "closestdin"
  /\ ~stdinClosed

\* C28: once stdin is closed nobody is left inside stdin.Write, no further
\* line reaches the child, and a write that is attempted returns at once: a
\* caller's control operation returns the write error with its entry removed
\* from the pending table, the reader's write of a control_response fails.
C28_ClosedWrites ==
  /\ [](stdinClosed =>
          /\ stdinMu = Free
          /\ \A c \in 1 .. NumWriters : cpc[c] = "write" => ENABLED CallWrite(c)
          /\ rdr = "respond" => ENABLED ReaderRespond)
  /\ [][stdinClosed =>
          /\ stdinLog' = stdinLog
          /\ stdinMu' = Free
          /\ \A c \in 1 .. NumWriters :
               (cpc[c] = "write" /\ cpc'[c] # "write") =>
                  /\ cpc'[c] = "returned"
                  /\ ret'[c].val = "writeerr"
                  /\ reqId[c] \notin DOMAIN pending'
          /\ Len(attempts') > Len(attempts) => ~attempts'[Len(attempts')].ok]_vars

\* stdin was closed by the shutdown goroutine while the child is still
\* running; a control operation has returned the write error and left the
\* pending table empty, and the reader's control_response write has failed.
C28_Witness ==
  /\ stdinClosed /\ child = "running"
  /\ \E c \in 1 .. NumWriters :
       cpc[c] = "returned" /\ ret[c].val = "writeerr"
  /\ pending = << >>
  /\ Len(attempts) = 1 /\ ~attempts[1].ok
  /\ Len(stdinLog) = 2

\* C30: the first line on the child's stdin is the initialize control_request
\* and the second the user message; until both are written the reader has
\* read nothing, written nothing and no caller has started a control
\* operation; when a handshake write failed the subprocess is killed, no
\* Stream exists and nothing more is written; no control_response line (the
\* reply to initialize among them) is delivered to the consumer.
C30_Handshake ==
  /\ Len(stdinLog) >= 1 =>
       stdinLog[1] = Msg("control_request", InitId, "initialize", HandshakeId)
  /\ Len(stdinLog) >= 2 => stdinLog[2] = Msg("user", NoId, "", HandshakeId)
  /\ \A k \in 3 .. Len(stdinLog) : stdinLog[k].by # HandshakeId
  /\ spawn = "started" => Len(stdinLog) >= 2
  /\ spawn # "started" =>
       /\ Len(stdinLog) = (IF spawn = "initialize" THEN 0 ELSE IF spawn = "user" THEN 1
                           ELSE Len(stdinLog))
       /\ Len(stdinLog) < 2
       /\ rd = 0 /\ rdr = "scan" /\ attempts = << >>
       /\ sd = "select1" /\ sdLog = << >>
       /\ events = << >> /\ received = << >> /\ eventsClosed = 0
       /\ DOMAIN pending = {}
       /\ \A c \in Callers : cpc[c] = "idle"
  /\ spawn = "failed" => child = "exited"
  /\ \A k \in 1 .. Len(received) :
       received[k].src # 0 => emitted[received[k].src].type # "control_response"
  /\ \A i \in 1 .. rd :
       (emitted[i].type = "control_response" /\ emitted[i].rid = InitId)
         => (~(\E k \in 1 .. Len(received) : received[k].src = i)
             /\ ~(\E k \in 1 .. Len(events) : events[k].src = i))

\* After the handshake the reader read the child's reply to initialize and
\* then an assistant line, which is the only event the consumer received;
\* the third line on stdin is a caller's control_request.
C30_Witness ==
  /\ spawn = "started"
  /\ Len(stdinLog) = 3 /\ stdinLog[3].by \in 1 .. NumWriters
  /\ rd = 2
  /\ emitted[1].type = "control_response" /\ emitted[1].rid = InitId
  /\ Len(received) = 1 /\ received[1].src = 2

\* C31: once ctx is cancelled, a reader waiting to deliver an event can always
\* leave the select by the ctx.Done() case; with the events buffer full that is
\* its only step, and it ends the goroutine with the events channel closed
\* and the undelivered event dropped.
C31_AbandonOnCancel ==
  /\ []((rdr = "deliver" /\ ctxDone) => ENABLED ReaderAbandon)
  /\ [][(rdr = "deliver" /\ Len(events) >= EventsCap /\ rdr' # rdr /\ received' = received)
        => /\ ctxDone
           /\ rdr' = "done"
           /\ eventsClosed' = eventsClosed + 1
           /\ procDone'
           /\ events' = events]_vars

\* The consumer received nothing, the buffer is full, ctx is cancelled and the
\* reader has given up the delivery of the second line and closed the channel.
C31_Witness ==
  /\ ctxDone
  /\ received = << >>
  /\ Len(events) = EventsCap
  /\ rd = EventsCap + 1
  /\ rdr = "done" /\ exitPath = "cancel"
  /\ eventsClosed = 1

\* C32 as stated: every line of valid JSON the reader has dealt with, whose
\* type is neither control_request, control_response nor a known domain
\* kind, was sent to the consumer as an event without a typed field (unless
\* ctx was cancelled while it waited to be delivered).
C32_Original ==
  \A i \in 1 .. rd :
    (/\ emitted[i].type \notin {"#empty", "#nonjson", "#toolong"}
     /\ ~IsControl(emitted[i])
     /\ emitted[i].type \notin KnownTypes
     /\ ~(i = rd /\ (rdr = "deliver" \/ exitPath = "cancel")))
    => \E k \in 1 .. Len(Sent) : Sent[k].src = i /\ ~Sent[k].typed

\* C33 as stated: procDone and the events channel are closed only when the
\* subprocess has exited and the reader has come through cmd.Wait(), not
\* through the return of the delivery select.
C33_Original ==
  (procDone \/ eventsClosed > 0) => (child = "exited" /\ exitPath # "cancel")

\* C34: a shutdown goroutine that leaves its first select with neither ctx
\* cancelled nor Interrupt() called has seen procDone and is finished, having
\* closed and signalled nothing; a finished shutdown goroutine does nothing
\* more whatever is cancelled or interrupted later; and it leaves its second
\* select either by the timeout, sending SIGKILL, or by procDone, sending
\* nothing.
C34_NoSignalAfterExit ==
  [][/\ (sd = "select1" /\ sd' # sd /\ ~ctxDone /\ ~interruptCh)
          => (procDone /\ sd' = "done" /\ sdLog' = << >> /\ timerStarts' = 0)
     /\ sd = "done"
          => (sd' = "done" /\ sdLog' = sdLog /\ timerStarts' = timerStarts)
     /\ (sd = "select2" /\ sd' # sd)
          => /\ sd' = "done"
             /\ \/ sdLog' = Append(sdLog, "kill")
                \/ procDone /\ sdLog' = sdLog]_vars

\* The subprocess exited on its own, the shutdown goroutine returned on
\* procDone without doing anything, and Interrupt() and the cancellation of
\* ctx that came afterwards found nothing to do.
C34_Witness ==
  /\ sd = "done" /\ sdLog = << >> /\ timerStarts = 0
  /\ procDone /\ child = "exited" /\ exitPath = "eof"
  /\ ctxDone /\ interruptCalls = MaxInterrupts
  /\ ~stdinClosed

\* C35 as stated: once the reader has read a control_response that carries a
\* request id inside its response object only, the entry registered under
\* that id has been resolved.
C35_Original ==
  \A i \in 1 .. rd :
    (emitted[i].type = "control_response" /\ emitted[i].wf
       /\ emitted[i].rid = NoId /\ emitted[i].irid # NoId)
    => emitted[i].irid \notin DOMAIN pending

\* The first control_response line read so far that carries id (0: none).
FirstResponse(id) ==
  IF ReadResponses(id) = {} THEN 0
  ELSE CHOOSE i \in ReadResponses(id) : \A j \in ReadResponses(id) : i <= j

\* C36 (as amended): an operation that returned nil received the first
\* response read for its identifier and that response's subtype was not
\* "error"; one that returned a response error received a first response of
\* subtype "error" and carries its error text; a returned operation owns no
\* entry of the pending table; and an operation that returns from its wait
\* while ctx is not cancelled returns by its response, nil exactly when the
\* subtype is not "error".
C36_ReturnValue ==
  /\ [](\A c \in Callers :
          cpc[c] = "returned" =>
            /\ \A id \in DOMAIN pending : pending[id] # c
            /\ reqId[c] \notin DOMAIN pending
            /\ ret[c].val \in {"nil", "resperr", "ctxerr", "writeerr"}
            /\ ret[c].val = "nil" =>
                 /\ FirstResponse(reqId[c]) # 0
                 /\ emitted[FirstResponse(reqId[c])].sub # "error"
                 /\ ret[c].err = ""
            /\ ret[c].val = "resperr" =>
                 /\ FirstResponse(reqId[c]) # 0
                 /\ emitted[FirstResponse(reqId[c])].sub = "error"
                 /\ ret[c].err = emitted[FirstResponse(reqId[c])].err
            /\ ret[c].val = "ctxerr" => ctxDone)
  /\ [][\A c \in Callers :
          (cpc[c] = "wait" /\ cpc'[c] = "returned" /\ ~ctxDone) =>
            /\ FirstResponse(reqId[c]) # 0
            /\ (ret'[c].val = "nil") = (emitted[FirstResponse(reqId[c])].sub # "error")
            /\ ret'[c].val \in {"nil", "resperr"}]_vars

\* One operation returned nil on a success response and the other returned
\* the error text of the error response to its own request.
C36_Witness ==
  \E c, d \in Callers :
    /\ cpc[c] = "returned" /\ ret[c].val = "nil"
    /\ cpc[d] = "returned" /\ ret[d].val = "resperr"
    /\ ret[d].err = "model not available"
    /\ DOMAIN pending = {}
    /\ ~ctxDone

\* C36 as stated: an operation leaving its wait returns nil if and only if the
\* response for its identifier that has arrived has a subtype other than
\* "error".
C36_Original ==
  [][\A c \in Callers :
       (cpc[c] = "wait" /\ cpc'[c] = "returned") =>
         ((ret'[c].val = "nil") =
            (FirstResponse(reqId[c]) # 0
               /\ emitted[FirstResponse(reqId[c])].sub # "error"))]_vars

\* C37: the step by which an operation returns its own error (write error,
\* error response) removes the entry of its identifier, if still there, and
\* leaves every other entry, every other caller, the events channel, the
\* reader and the child's stdin as they were; and a caller that is waiting
\* with nothing routed to it yet still has its entry.
C37_OwnEntryOnly ==
  /\ [](\A d \in Callers :
          (cpc[d] = "wait" /\ respCh[d] = << >>)
            => (reqId[d] \in DOMAIN pending /\ pending[reqId[d]] = d))
  /\ [][\A c \in Callers :
          (cpc[c] \in {"write", "wait"} /\ cpc'[c] = "returned"
             /\ ret'[c].val \in {"writeerr", "resperr"}) =>
            /\ pending' = [i \in DOMAIN pending \ {reqId[c]} |-> pending[i]]
            /\ \A d \in Callers \ {c} :
                 /\ cpc'[d] = cpc[d] /\ reqId'[d] = reqId[d]
                 /\ respCh'[d] = respCh[d] /\ ret'[d] = ret[d]
            /\ events' = events /\ eventsClosed' = eventsClosed
            /\ received' = received
            /\ rdr' = rdr /\ rd' = rd
            /\ stdinLog' = stdinLog /\ stdinClosed' = stdinClosed]_vars

\* One operation failed on its write, the other one returned nil on the
\* response to its own request, and the consumer received an event.
C37_Witness ==
  \E c, d \in Callers :
    /\ cpc[c] = "returned" /\ ret[c].val = "writeerr"
    /\ cpc[d] = "returned" /\ ret[d].val = "nil" /\ ret[d].rid = reqId[d]
    /\ Len(received) = 1
    /\ rd = 2
    /\ emitted[2].type = "control_response"

\* Positions in Sent of the result events.
ResultsSent == {k \in 1 .. Len(Sent) : Sent[k].type = TypeResult}

\* C38: at most one result event is ever sent; once it has been sent it is the
\* last event on the channel, it was parsed from the last line the reader
\* read, and the reader is closing stdin, or has closed it and waits for the
\* subprocess, or has returned; no synthesized event exists.
C38_ResultTerminal ==
  /\ Cardinality(ResultsSent) <= 1
  /\ gotResult = (ResultsSent # {})
  /\ gotResult =>
       /\ ResultsSent = {Len(Sent)}
       /\ Sent[Len(Sent)].src = rd
       /\ emitted[rd].type = TypeResult
       /\ Synth = {}
       /\ rdr \in {"closestdin", "wait", "done"}
       /\ rdr \in {"wait", "done"} => stdinClosed
       /\ exitPath = "result"
       /\ attempts = SelectSeq(attempts, LAMBDA a : a.idx < rd)

\* The result was the first of two lines; the subprocess then exited with an
\* error: the channel is closed with the result as the only event and the
\* second line unread.
C38_Witness ==
  /\ gotResult
  /\ Len(emitted) = 2 /\ rd = 1
  /\ child = "exited" /\ exitErr
  /\ rdr = "done" /\ eventsClosed = 1
  /\ Len(Sent) = 1
  /\ stdinClosed

\* The session C39 is about has run to its end: Interrupt() was called, no
\* result was delivered, ctx is not cancelled, the subprocess has ended with
\* an error (signal or non-zero status) and the reader has returned.
InterruptedEnd ==
  /\ interruptCalls > 0 /\ ~gotResult /\ ~ctxDone
  /\ child = "exited" /\ exitErr
  /\ rdr = "done"

C40_Layout ==
  LET n == Len(cmdEnv)
      u == Cardinality(DOMAIN opts.Env)
      head == { i \in 1 .. n - u : cmdEnv[i].key \in StrippedKeys }
  IN /\ n >= u
     /\ { cmdEnv[i] : i \in n - u + 1 .. n }
          = { EnvEntry(k, opts.Env[k]) : k \in DOMAIN opts.Env }
     /\ \E i \in 1 .. n - u : cmdEnv[i] = EnvEntry("CLAUDE_CODE_ENTRYPOINT", "sdk-go")
     /\ \A i \in head : cmdEnv[i].key # "CLAUDECODE"
     /\ Cardinality({ i \in head : cmdEnv[i].key = "CLAUDE_CODE_ENTRYPOINT" }) = 1
     /\ Cardinality({ i \in head : cmdEnv[i].key = "MAX_THINKING_TOKENS" }) <= 1

C40_Original ==
  spawn # "exec" =>
    /\ \E i \in DOMAIN cmdEnv : cmdEnv[i] = EnvEntry("CLAUDE_AGENT_SDK_VERSION", SDKVersion)
    /\ C40_Layout

====
